---- MODULE Spec2Model ----
(***************************************************************************)
(* erdemOS: the ersh command interpreter (src/src/ersh.c) and init         *)
(* (src/src/init.c).                                                       *)
(*                                                                         *)
(* A C string is a sequence of one-character strings; the byte 0 is the   *)
(* value NUL.  A pointer is either NULL or the string it points to.        *)
(* The specifications:                                                     *)
(*   SpecParse  the tokenizer parse_args applied to bounded lines;         *)
(*   Spec       the interpreter loop of main with execute, the built-ins,  *)
(*              the child processes and a small filesystem;                *)
(*   SpecRm     one rm command line run over a set of small trees;         *)
(*   SpecSize   write_size_aligned applied to sizes up to the top of off_t;*)
(*   SpecHelp   help applied to every name the dispatcher knows;           *)
(*   SpecRead   the interpreter loop fed from a stream by read;            *)
(*   SpecDeep   remove_directory_recursive call by call on long paths;     *)
(*   SpecInit   main of init with its children and its SIGCHLD handler.    *)
(***************************************************************************)
EXTENDS Integers, Sequences, FiniteSets, TLC

VARIABLES
    pline,      \* SpecParse: the line handed to parse_args
    pres,       \* SpecParse: what parse_args returned and wrote, or NoResult
    pc,         \* main: AWAIT_LINE, PARSE, DISPATCH, WAIT_CHILD, TERMINATED
    line,       \* main: the command buffer as a C string
    n,          \* main: the last return value of read
    argc,       \* main: the last return value of parse_args
    args,       \* main: the argument vector, slots 0..argc
    fs,         \* the filesystem: absolute path -> node
    cwd,        \* the interpreter's working directory
    rev,        \* whether readdir yields names in reverse order
    children,   \* the child processes of the interpreter, by pid
    waitFor,    \* execute: the pid the parent is blocked on in waitpid, or 0
    log,        \* what the current iteration did, in order
    status,     \* what execute returned in the current iteration
    term,       \* how the interpreter process ended, or NotTerminated
    fsize,      \* SpecSize: the off_t handed to write_size_aligned
    written,    \* SpecSize: what write_size_aligned wrote, or NoResult
    stdin,      \* SpecRead: the bytes of standard input not yet read
    taken,      \* SpecRead: the bytes of standard input read so far
    frames,     \* SpecDeep: the active calls of remove_directory_recursive,
                \*   outermost first: the path and the entries still to be read
    pend,       \* SpecDeep: the path of a call about to begin, or NULL
    rv,         \* SpecDeep: <<v>> when a call has just returned v, or <<>>
    ipc,        \* SpecInit: where main of init.c stands
    hpc,        \* SpecInit: whether sigchld_handler is running
    sigchld,    \* SpecInit: whether SIGCHLD is pending for init
    kbd,        \* SpecInit: the loadkeys child: none, running, zombie, reaped ...
    sh,         \* SpecInit: the ersh child: none, running, zombie, reaped ...
    orphans     \* SpecInit: the zombies among the processes init has inherited

parseVars == <<pline, pres>>
shellVars == <<pc, line, n, argc, args, fs, cwd, rev, children, waitFor, log, status, term>>
sizeVars == <<fsize, written>>
readVars == <<stdin, taken>>
deepVars == <<frames, pend, rv>>
bootVars == <<ipc, hpc, sigchld, kbd, sh, orphans>>
auxVars == <<sizeVars, readVars, deepVars, bootVars>>
vars == <<pline, pres, pc, line, n, argc, args, fs, cwd, rev, children, waitFor, log, status, term,
          auxVars>>

----------------------------------------------------------------------------
(* Program constants and model bounds *)

MAX_CMD_LEN == 1024
MAX_ARGS == 64

\* SpecParse: a line is up to MaxFree free characters followed by up to
\* MaxFill repetitions of FillUnit.
MaxFree == 3
MaxFill == 66

NULL == <<"NULL">>
NUL == "NUL"

Min(a, b) == IF a < b THEN a ELSE b

----------------------------------------------------------------------------
(* The tokenizer *)

\* strtok's delimiter set " \t\n"
DelimsNoTab == {" ", "\n"}
Delims == {" ", "\t", "\n"}

\* The first position >= p of s that holds no delimiter (Len(s)+1: none)
RECURSIVE SkipDelims(_, _)
SkipDelims(s, p) ==
    IF p > Len(s) THEN Len(s) + 1
    ELSE IF s[p] \in Delims THEN SkipDelims(s, p + 1) ELSE p

\* The first position >= p of s that holds a delimiter (Len(s)+1: none)
RECURSIVE TokEnd(_, _)
TokEnd(s, p) ==
    IF p > Len(s) THEN Len(s) + 1
    ELSE IF s[p] \in Delims THEN p ELSE TokEnd(s, p + 1)

\* strtok continuing at position p of the buffer: the next token and the
\* saved position after the delimiter it overwrote, or NULL at the end.
strtok(s, p) ==
    LET b == SkipDelims(s, p) IN
    IF b > Len(s) THEN [token |-> NULL, save |-> b]
    ELSE LET e == TokEnd(s, b) IN
         [token |-> SubSeq(s, b, e - 1),
          save  |-> IF e > Len(s) THEN e ELSE e + 1]

\* The loop guard of parse_args
ParseGuardOffByOne(token, i) == token # NULL /\ i < MAX_ARGS
ParseGuard(token, i) == token # NULL /\ i < MAX_ARGS - 1

\* The while loop of parse_args: a is the set of slots written so far
RECURSIVE ParseLoop(_, _, _, _)
ParseLoop(s, t, i, a) ==
    IF ParseGuard(t.token, i)
    THEN ParseLoop(s, strtok(s, t.save), i + 1, a @@ (i :> t.token))
    ELSE [n |-> i, args |-> a @@ (i :> NULL)]

\* parse_args(line, args): the count returned and the slots of args written
parse_args(s) == ParseLoop(s, strtok(s, 1), 0, <<>>)

----------------------------------------------------------------------------
(* SpecParse: parse_args on bounded lines *)

NoResult == [n |-> -1, args |-> <<>>]
FreeChars == {"a", "b", " ", "\t", "\n"}
FillUnit == <<" ", "x">>


FreeLines == UNION {[1..l -> FreeChars] : l \in 0..MaxFree}

ShellIdle ==
    /\ pc = "AWAIT_LINE" /\ line = <<>> /\ n = 0 /\ argc = 0 /\ args = <<>>
    /\ fs = <<>> /\ cwd = <<>> /\ rev = FALSE /\ children = <<>> /\ waitFor = 0
    /\ log = <<>> /\ status = 0 /\ term = [how |-> "running", code |-> 0]

\* The variables of the small specifications at rest
SizeIdle == fsize = [hi |-> 0, lo |-> 0] /\ written = NoResult

ReadIdle == stdin = <<>> /\ taken = <<>>

DeepIdle == frames = <<>> /\ pend = <<"NULL">> /\ rv = <<>>

BootIdle ==
    /\ ipc = "IDLE" /\ hpc = "idle" /\ sigchld = FALSE
    /\ kbd = "none" /\ sh = "none" /\ orphans = 0

AuxIdle == SizeIdle /\ ReadIdle /\ DeepIdle /\ BootIdle

InitParse ==
    /\ pline \in FreeLines
    /\ pres = NoResult
    /\ ShellIdle
    /\ AuxIdle

\* One more filler token is appended to the line
PFill ==
    /\ pres = NoResult
    /\ Len(pline) + Len(FillUnit) <= MaxFree + MaxFill * Len(FillUnit)
    /\ pline' = pline \o FillUnit
    /\ UNCHANGED <<pres, shellVars, auxVars>>

\* parse_args is applied to the line
PParse ==
    /\ pres = NoResult
    /\ pres' = parse_args(pline)
    /\ UNCHANGED <<pline, shellVars, auxVars>>

NextParse == PFill \/ PParse

SpecParse == InitParse /\ [][NextParse]_vars

----------------------------------------------------------------------------
(* The tokens of a line, stated without strtok: the maximal runs of        *)
(* characters that are neither space, tab nor newline, from left to right. *)

Whitespace == {" ", "\t", "\n"}

TokStarts(s) ==
    {b \in 1..Len(s) : s[b] \notin Whitespace /\ (b = 1 \/ s[b - 1] \in Whitespace)}

TokenAt(s, b) ==
    LET e == CHOOSE k \in b..Len(s) :
                 /\ \A j \in b..k : s[j] \notin Whitespace
                 /\ (k = Len(s) \/ s[k + 1] \in Whitespace)
    IN SubSeq(s, b, e)

\* How many of the token starts st lie before position b
TokIndex(st, b) == Cardinality({c \in st : c < b})

\* C8: for every line of at most MAX_ARGS-1 = 63 tokens separated by spaces,
\* tabs or newlines, parse_args returns the number n of tokens, args[0..n-1]
\* are exactly those tokens in their original order, each non-empty, and
\* args[n] is the NULL sentinel.
C8_ParseReproducesTokens ==
    pres # NoResult =>
        LET st == TokStarts(pline) IN
        Cardinality(st) <= MAX_ARGS - 1 =>
            /\ pres.n = Cardinality(st)
            /\ DOMAIN pres.args = 0..pres.n
            /\ \A b \in st :
                  LET a == pres.args[TokIndex(st, b)] IN
                  a = TokenAt(pline, b) /\ Len(a) > 0 /\ a # NULL
            /\ pres.args[pres.n] = NULL

\* A line of exactly 63 tokens that starts with a tab and mixes the three
\* separators has been parsed.
C8_Witness ==
    /\ pres # NoResult
    /\ pres.n = MAX_ARGS - 1
    /\ Cardinality(TokStarts(pline)) = MAX_ARGS - 1
    /\ Len(pline) >= 3 /\ pline[1] = "\t" /\ pline[2] = "b" /\ pline[3] = "\n"

\* C9: for every line, also one of more than 63 tokens, parse_args stores the
\* first min(tokens, 63) tokens in order, returns that count (never an error
\* value), and writes the sentinel at an index no greater than 63: every slot
\* written lies inside the 64-slot argument vector.
C9_ParseCapped ==
    pres # NoResult =>
        LET st == TokStarts(pline) IN
        /\ pres.n = Min(Cardinality(st), MAX_ARGS - 1)
        /\ pres.n >= 0
        /\ \A b \in st :
              LET k == TokIndex(st, b) IN
              k < MAX_ARGS - 1 => pres.args[k] = TokenAt(pline, b)
        /\ pres.args[pres.n] = NULL
        /\ DOMAIN pres.args = 0..pres.n
        /\ DOMAIN pres.args \subseteq 0..(MAX_ARGS - 1)

\* A line of more than 63 tokens has been parsed and 63 were kept.
C9_Witness ==
    /\ pres # NoResult
    /\ Cardinality(TokStarts(pline)) > MAX_ARGS - 1
    /\ pres.n = MAX_ARGS - 1
    /\ pres.args[MAX_ARGS - 1] = NULL

----------------------------------------------------------------------------
(* The filesystem the system calls of ersh.c act on.  A node is named by  *)
(* its absolute path; a directory that is immutable refuses to have        *)
(* entries added or removed, an immutable file refuses unlink and open for *)
(* writing.  Symbolic links hold an absolute target.                       *)

Root == <<"/">>
Dot == <<".">>
DotDot == <<".", ".">>

IsAbs(p) == Len(p) > 0 /\ p[1] = "/"

\* The components of a path between its slashes
RECURSIVE Split(_, _, _)
Split(p, i, cur) ==
    IF i > Len(p) THEN (IF cur = <<>> THEN <<>> ELSE <<cur>>)
    ELSE LET \* the component that ends before position j, and the rest
             Cut(j) ==
                 (IF cur \o SubSeq(p, i, j - 1) = <<>> THEN <<>>
                  ELSE <<cur \o SubSeq(p, i, j - 1)>>)
                 \o (IF j > Len(p) THEN <<>> ELSE Split(p, j + 1, <<>>))
             First(S) == IF S = {} THEN Len(p) + 1
                         ELSE CHOOSE j \in S : \A k \in S : j <= k
         IN  Cut(First({j \in i..Len(p) : p[j] = "/"}))

Components(p) == Split(p, 1, <<>>)

ChildPath(dir, name) ==
    IF dir = Root THEN dir \o name ELSE dir \o <<"/">> \o name

RECURSIVE JoinAbs(_)
JoinAbs(comps) ==
    IF comps = <<>> THEN Root
    ELSE ChildPath(JoinAbs(SubSeq(comps, 1, Len(comps) - 1)), comps[Len(comps)])

ParentPath(p) ==
    LET c == Components(p) IN
    IF c = <<>> THEN Root ELSE JoinAbs(SubSeq(c, 1, Len(c) - 1))

BaseName(p) == LET c == Components(p) IN IF c = <<>> THEN <<>> ELSE c[Len(c)]

DirNode(mode) == [kind |-> "dir", mode |-> mode, size |-> 0, target |-> <<>>, imm |-> FALSE]
FileNode(mode, size) == [kind |-> "file", mode |-> mode, size |-> size, target |-> <<>>, imm |-> FALSE]
LinkNode(target) == [kind |-> "link", mode |-> 511, size |-> Len(target), target |-> target, imm |-> FALSE]
NoNode == [kind |-> "none", mode |-> 0, size |-> 0, target |-> <<>>, imm |-> FALSE]

NoEnt == [ok |-> FALSE, path |-> <<>>, exists |-> FALSE]

\* Path resolution from directory cur: ok with the node's absolute path, or
\* ok with exists = FALSE when only the last component is missing.
RECURSIVE Walk(_, _, _, _)
Walk(f, cur, comps, followLast) ==
    IF comps = <<>>
    THEN [ok |-> cur \in DOMAIN f, path |-> cur, exists |-> cur \in DOMAIN f]
    ELSE LET c == Head(comps)
             rest == Tail(comps)
         IN  IF cur \notin DOMAIN f THEN NoEnt
             ELSE IF f[cur].kind # "dir" THEN NoEnt
             ELSE IF c = Dot THEN Walk(f, cur, rest, followLast)
             ELSE IF c = DotDot THEN Walk(f, ParentPath(cur), rest, followLast)
             ELSE LET p == ChildPath(cur, c) IN
                  IF p \notin DOMAIN f
                  THEN IF rest = <<>>
                       THEN [ok |-> TRUE, path |-> p, exists |-> FALSE]
                       ELSE NoEnt
                  ELSE IF f[p].kind = "link" /\ (rest # <<>> \/ followLast)
                       THEN Walk(f, Root, Components(f[p].target) \o rest, followLast)
                       ELSE Walk(f, p, rest, followLast)

Resolve(st, path, followLast) ==
    Walk(st.fs, IF IsAbs(path) THEN Root ELSE st.cwd, Components(path), followLast)

Entries(f, dir) == {p \in DOMAIN f : p # Root /\ ParentPath(p) = dir}

Without(f, p) == [q \in DOMAIN f \ {p} |-> f[q]]

\* The last component of a path as written, "." and ".." included
EndsInDot(path) ==
    LET c == Components(path) IN c # <<>> /\ c[Len(c)] \in {Dot, DotDot}

sys_stat(st, path) ==
    LET At(r) == IF r.ok /\ r.exists THEN [rc |-> 0, node |-> st.fs[r.path]]
                 ELSE [rc |-> -1, node |-> NoNode]
    IN  At(Resolve(st, path, TRUE))

sys_chdir(st, path) ==
    LET At(r) == IF r.ok /\ r.exists /\ st.fs[r.path].kind = "dir"
                 THEN [rc |-> 0, cwd |-> r.path]
                 ELSE [rc |-> -1, cwd |-> st.cwd]
    IN  At(Resolve(st, path, TRUE))

sys_mkdir(st, path, mode) ==
    LET At(r) == IF r.ok /\ ~r.exists /\ ~st.fs[ParentPath(r.path)].imm
                 THEN [rc |-> 0, fs |-> st.fs @@ (r.path :> DirNode(mode))]
                 ELSE [rc |-> -1, fs |-> st.fs]
    IN  At(Resolve(st, path, FALSE))

sys_unlink(st, path) ==
    LET At(r) == IF /\ r.ok /\ r.exists /\ r.path # Root
                    /\ st.fs[r.path].kind # "dir"
                    /\ ~st.fs[r.path].imm
                    /\ ~st.fs[ParentPath(r.path)].imm
                 THEN [rc |-> 0, fs |-> Without(st.fs, r.path)]
                 ELSE [rc |-> -1, fs |-> st.fs]
    IN  At(Resolve(st, path, FALSE))

sys_rmdir(st, path) ==
    LET At(r) == IF /\ r.ok /\ r.exists /\ r.path # Root
                    /\ ~EndsInDot(path)
                    /\ st.fs[r.path].kind = "dir"
                    /\ Entries(st.fs, r.path) = {}
                    /\ ~st.fs[r.path].imm
                    /\ ~st.fs[ParentPath(r.path)].imm
                 THEN [rc |-> 0, fs |-> Without(st.fs, r.path)]
                 ELSE [rc |-> -1, fs |-> st.fs]
    IN  At(Resolve(st, path, FALSE))

\* open(path, O_WRONLY | O_CREAT | O_NOCTTY | O_NONBLOCK, 0666), umask 022
\* open with O_TRUNC added: an existing file is emptied
sys_open_trunc(st, path) ==
    LET At(r) == IF r.ok /\ r.exists
                 THEN IF st.fs[r.path].kind = "file" /\ ~st.fs[r.path].imm
                      THEN [rc |-> 3, fs |-> [st.fs EXCEPT ![r.path].size = 0]]
                      ELSE [rc |-> -1, fs |-> st.fs]
                 ELSE IF r.ok /\ ~st.fs[ParentPath(r.path)].imm
                      THEN [rc |-> 3, fs |-> st.fs @@ (r.path :> FileNode(420, 0))]
                      ELSE [rc |-> -1, fs |-> st.fs]
    IN  At(Resolve(st, path, TRUE))

sys_open_creat(st, path) ==
    LET At(r) == IF r.ok /\ r.exists
                 THEN IF st.fs[r.path].kind = "file" /\ ~st.fs[r.path].imm
                      THEN [rc |-> 3, fs |-> st.fs]
                      ELSE [rc |-> -1, fs |-> st.fs]
                 ELSE IF r.ok /\ ~st.fs[ParentPath(r.path)].imm
                      THEN [rc |-> 3, fs |-> st.fs @@ (r.path :> FileNode(420, 0))]
                      ELSE [rc |-> -1, fs |-> st.fs]
    IN  At(Resolve(st, path, TRUE))

sys_getcwd(st) ==
    IF st.cwd \in DOMAIN st.fs /\ Len(st.cwd) < 1024
    THEN [ok |-> TRUE, cwd |-> st.cwd]
    ELSE [ok |-> FALSE, cwd |-> <<>>]

\* Every name of the model, in the order readdir returns names when rev
\* is FALSE (the reverse when it is TRUE).
NameOrder ==
    << <<".", "h">>, <<"a">>, <<"b">>, <<"c">>, <<"d">>, <<"e">>, <<"f">>, <<"g">>,
       <<"k">>, <<"l">>, <<"n">>, <<"o">>, <<"p">>, <<"s">>, <<"t">>, <<"w">>, <<"x">>,
       <<"x", "y">>, <<"e", "e", "e", "e", "e">> >>

Rank(name) == CHOOSE i \in 1..Len(NameOrder) : NameOrder[i] = name

RECURSIVE SortNames(_, _)
SortNames(S, desc) ==
    IF S = {} THEN <<>>
    ELSE LET m == CHOOSE x \in S : \A y \in S :
                      IF desc THEN Rank(y) <= Rank(x) ELSE Rank(x) <= Rank(y)
         IN  <<m>> \o SortNames(S \ {m}, desc)

\* opendir and the whole sequence readdir then yields
sys_opendir(st, path) ==
    LET At(r) == IF r.ok /\ r.exists /\ st.fs[r.path].kind = "dir"
                 THEN [ok |-> TRUE,
                       names |-> <<Dot, DotDot>> \o
                           SortNames({BaseName(p) : p \in Entries(st.fs, r.path)}, st.rev)]
                 ELSE [ok |-> FALSE, names |-> <<>>]
    IN  At(Resolve(st, path, TRUE))

----------------------------------------------------------------------------
(* The built-in handlers.  A handler takes the argument vector a and the   *)
(* process state st = [fs, cwd, rev] and yields its return status, the new *)
(* filesystem and working directory, and what it wrote and detected.       *)

S_cd == <<"c", "d">>
S_exit == <<"e", "x", "i", "t">>
S_help == <<"h", "e", "l", "p">>
S_ls == <<"l", "s">>
S_mkdir == <<"m", "k", "d", "i", "r">>
S_poweroff == <<"p", "o", "w", "e", "r", "o", "f", "f">>
S_pwd == <<"p", "w", "d">>
S_rm == <<"r", "m">>
S_touch == <<"t", "o", "u", "c", "h">>

\* An entry of the iteration's log:
\*   call  a handler or the launcher was entered (what: its name)
\*   fail  a failure was detected (what: the operation, path: its operand)
\*   msg   one diagnostic message was written (what: its text, path: the
\*         string printed after it)
\*   out   regular output was written
\*   open  opendir or open returned a handle (path: what it was opened on)
\*   close closedir or close was called on the handle opened on path
\* arg is the index in args of the operand concerned (0: none).
Ev(ev, what, path, arg) == [ev |-> ev, what |-> what, path |-> path, arg |-> arg]
Call(what) == Ev("call", what, <<>>, 0)
Fail(what, path, arg) == Ev("fail", what, path, arg)
Msg(what, path, arg) == Ev("msg", what, path, arg)
Out(what, path, arg) == Ev("out", what, path, arg)
Acquire(what, path) == Ev("open", what, path, 0)
Release(what, path) == Ev("close", what, path, 0)

RetAtRoot(st, rc, l) == [status |-> rc, fs |-> st.fs, cwd |-> Root, log |-> l]
Ret(st, rc, l) == [status |-> rc, fs |-> st.fs, cwd |-> st.cwd, log |-> l]

builtin_cd_ignoring_failure(a, st) ==
    IF a[1] = NULL
    THEN Ret(st, 1, <<Fail("missing argument", <<>>, 1),
                      Msg("ersh: cd: missing argument", <<>>, 1)>>)
    ELSE LET After(r) == [status |-> 0, fs |-> st.fs, cwd |-> r.cwd, log |-> <<>>]
         IN  After(sys_chdir(st, a[1]))

builtin_cd(a, st) ==
    IF a[1] = NULL
    THEN Ret(st, 1, <<Fail("missing argument", <<>>, 1),
                      Msg("ersh: cd: missing argument", <<>>, 1)>>)
    ELSE LET After(r) ==
                 IF r.rc # 0
                 THEN Ret(st, 1, <<Fail("chdir", a[1], 1),
                                   Msg("ersh: cd: cannot change directory", <<>>, 1)>>)
                 ELSE [status |-> 0, fs |-> st.fs, cwd |-> r.cwd, log |-> <<>>]
         IN  After(sys_chdir(st, a[1]))

\* The names builtin_help has a detailed text for, in the order it compares
\* The table of builtin_help with the entry for poweroff left out
HelpTopicsWithoutPoweroff ==
    <<S_cd, S_exit, S_help, S_ls, S_mkdir, S_pwd, S_rm, S_touch>>

\* The names builtin_help compares its operand with, in order
HelpTopics ==
    <<S_cd, S_exit, S_help, S_ls, S_mkdir, S_poweroff, S_pwd, S_rm, S_touch>>

builtin_help(a, st) ==
    IF a[1] # NULL
    THEN IF \E i \in 1..Len(HelpTopics) : a[1] = HelpTopics[i]
         THEN Ret(st, 0, <<Out("help: usage", a[1], 1)>>)
         ELSE Ret(st, 1, <<Fail("unknown command", a[1], 1),
                           Msg("ersh: help: unknown command: ", a[1], 1)>>)
    ELSE Ret(st, 0, <<Out("help: catalog", <<>>, 0)>>)

\* The 1024-byte fullpath buffer of builtin_ls and remove_directory_recursive
\* off_t: a 64-bit file size, held as hi * Limb + lo with 0 <= lo < Limb so
\* that sizes of more than nine digits can be computed with
Limb == 1000000000
off_t(k) == [hi |-> k \div Limb, lo |-> k % Limb]
OffIsZero(x) == x.hi = 0 /\ x.lo = 0
OffMod10(x) == x.lo % 10
OffDiv10(x) == [hi |-> x.hi \div 10, lo |-> (x.hi % 10) * (Limb \div 10) + x.lo \div 10]

\* '0' + d
Digit(d) == <<"0", "1", "2", "3", "4", "5", "6", "7", "8", "9">>[d + 1]

\* write_size_aligned: the loop that fills buf, least significant digit first
RECURSIVE SizeDigits(_, _)
SizeDigits(x, buf) ==
    IF OffIsZero(x) THEN buf
    ELSE SizeDigits(OffDiv10(x), Append(buf, Digit(OffMod10(x))))

\* write_size_aligned: the padding loop, which runs padding times if padding > 0
RECURSIVE Padding(_)
Padding(k) == IF k <= 0 THEN <<>> ELSE <<" ">> \o Padding(k - 1)

\* write_size_aligned: the loop that writes buf from its end
RECURSIVE WriteBack(_)
WriteBack(buf) ==
    IF buf = <<>> THEN <<>>
    ELSE <<buf[Len(buf)]>> \o WriteBack(SubSeq(buf, 1, Len(buf) - 1))

\* write_size_aligned without the branch for n == 0
write_size_no_zero_branch(sz) ==
    LET Emit(buf) == Padding(10 - Len(buf)) \o WriteBack(buf)
    IN  Emit(SizeDigits(sz, <<>>))

\* write_size_aligned(size): the characters it writes
write_size_aligned(sz) ==
    LET Emit(buf) == Padding(10 - Len(buf)) \o WriteBack(buf)
    IN  Emit(IF OffIsZero(sz) THEN <<"0">> ELSE SizeDigits(sz, <<>>))

\* st_mode of a node: the file type bits (S_IFDIR, S_IFREG) and the permissions
st_mode(node) == (IF node.kind = "dir" THEN 16384 ELSE 32768) + node.mode
S_ISDIR(mode) == (mode \div 4096) % 16 = 4
ModeBit(mode, mask) == (mode \div mask) % 2 = 1

\* write_permissions with the owner's masks tested for group and others too
write_permissions_owner_masks(mode) ==
    << IF S_ISDIR(mode) THEN "d" ELSE "-",
       IF ModeBit(mode, 256) THEN "r" ELSE "-",
       IF ModeBit(mode, 128) THEN "w" ELSE "-",
       IF ModeBit(mode, 64) THEN "x" ELSE "-",
       IF ModeBit(mode, 256) THEN "r" ELSE "-",
       IF ModeBit(mode, 128) THEN "w" ELSE "-",
       IF ModeBit(mode, 64) THEN "x" ELSE "-",
       IF ModeBit(mode, 256) THEN "r" ELSE "-",
       IF ModeBit(mode, 128) THEN "w" ELSE "-",
       IF ModeBit(mode, 64) THEN "x" ELSE "-" >>

\* write_permissions(mode): the characters it writes
write_permissions(mode) ==
    << IF S_ISDIR(mode) THEN "d" ELSE "-",
       IF ModeBit(mode, 256) THEN "r" ELSE "-",
       IF ModeBit(mode, 128) THEN "w" ELSE "-",
       IF ModeBit(mode, 64) THEN "x" ELSE "-",
       IF ModeBit(mode, 32) THEN "r" ELSE "-",
       IF ModeBit(mode, 16) THEN "w" ELSE "-",
       IF ModeBit(mode, 8) THEN "x" ELSE "-",
       IF ModeBit(mode, 4) THEN "r" ELSE "-",
       IF ModeBit(mode, 2) THEN "w" ELSE "-",
       IF ModeBit(mode, 1) THEN "x" ELSE "-" >>

FULLPATH_SIZE == 1024

\* "Build full path": path, a '/' unless path ends with one, then the name,
\* each copy stopping at FULLPATH_SIZE - 1 characters.
JoinPath(path, name) ==
    LET lim == FULLPATH_SIZE - 1
        p1 == SubSeq(path, 1, Min(Len(path), lim))
        p2 == IF Len(p1) < lim /\ p1[Len(p1)] # "/" THEN Append(p1, "/") ELSE p1
    IN  p2 \o SubSeq(name, 1, Min(Len(name), lim - Len(p2)))

\* Whether flag letter c occurs in the flag token after its first character
HasFlag(tok, c) == \E i \in 2..Len(tok) : tok[i] = c

\* The flag loop of builtin_ls
\* The flag loop with show_all stuck at 1
RECURSIVE LsFlagsShowAll(_, _, _, _)
LsFlagsShowAll(a, idx, show_all, long_format) ==
    IF a[idx] # NULL /\ a[idx][1] = "-"
    THEN LsFlagsShowAll(a, idx + 1, TRUE, long_format \/ HasFlag(a[idx], "l"))
    ELSE [idx |-> idx, show_all |-> TRUE, long_format |-> long_format]

RECURSIVE LsFlags(_, _, _, _)
LsFlags(a, idx, show_all, long_format) ==
    IF a[idx] # NULL /\ a[idx][1] = "-"
    THEN LsFlags(a, idx + 1,
                 show_all \/ HasFlag(a[idx], "a"),
                 long_format \/ HasFlag(a[idx], "l"))
    ELSE [idx |-> idx, show_all |-> show_all, long_format |-> long_format]

\* What builtin_ls writes for an entry in long format when stat succeeded,
\* and when it failed.  A colour escape sequence is one element, named by
\* its macro.
LongLine(node, name) ==
    <<"ERDEMOS_PRIMARY_COLOR">> \o write_permissions(st_mode(node)) \o <<" ">>
    \o write_size_aligned(off_t(node.size)) \o <<" ", " ">>
    \o <<"ERDEMOS_COMMAND_COLOR">> \o name \o <<"COLOR_RESET", "\n">>

NameLine(name) == <<"ERDEMOS_PRIMARY_COLOR">> \o name \o <<"COLOR_RESET", "\n">>

\* The readdir loop of builtin_ls over the names still to come.  In long
\* format the log holds the line written (ls: line) and then the entry it
\* was written for.
RECURSIVE LsLoop(_, _, _, _, _)
LsLoop(st, path, names, fl, l) ==
    IF names = <<>> THEN l
    ELSE LET name == Head(names)
             Long(fullpath, r) ==
                 IF r.rc = 0
                 THEN LsLoop(st, path, Tail(names), fl,
                             l \o <<Out("ls: line", LongLine(r.node, name), fl.idx),
                                    Out("ls: long entry", name, fl.idx)>>)
                 ELSE LsLoop(st, path, Tail(names), fl,
                             l \o <<Fail("ls: stat", fullpath, fl.idx),
                                    Out("ls: line", NameLine(name), fl.idx),
                                    Out("ls: name only", name, fl.idx)>>)
             Stat(fullpath) == Long(fullpath, sys_stat(st, fullpath))
         IN
         IF ~fl.show_all /\ name[1] = "."
         THEN LsLoop(st, path, Tail(names), fl, l)
         ELSE IF fl.long_format
              THEN Stat(JoinPath(path, name))
              ELSE LsLoop(st, path, Tail(names), fl,
                          Append(l, Out("ls: entry", name, fl.idx)))

builtin_ls(a, st) ==
    LET List(fl, path, dir) ==
            IF ~dir.ok
            THEN Ret(st, 1, <<Fail("opendir", path, fl.idx),
                              Msg("ersh: ls: cannot open directory: ", path, fl.idx)>>)
            ELSE Ret(st, 0, LsLoop(st, path, dir.names, fl, <<Acquire("opendir", path)>>)
                            \o <<Release("closedir", path)>>)
        Open(fl, path) == List(fl, path, sys_opendir(st, path))
        Flags(fl) == Open(fl, IF a[fl.idx] # NULL THEN a[fl.idx] ELSE Dot)
    IN  Flags(LsFlags(a, 1, FALSE, FALSE))

builtin_mkdir(a, st) ==
    IF a[1] = NULL
    THEN Ret(st, 1, <<Fail("missing argument", <<>>, 1),
                      Msg("ersh: mkdir: missing argument", <<>>, 1)>>)
    ELSE LET After(r) ==
                 IF r.rc # 0
                 THEN Ret(st, 1, <<Fail("mkdir", a[1], 1),
                                   Msg("ersh: mkdir: cannot create directory: ", a[1], 1)>>)
                 ELSE [status |-> 0, fs |-> r.fs, cwd |-> st.cwd, log |-> <<>>]
         IN  After(sys_mkdir(st, a[1], 493))

builtin_pwd(a, st) ==
    LET After(r) ==
            IF r.ok THEN Ret(st, 0, <<Out("pwd", r.cwd, 0)>>)
            ELSE Ret(st, 1, <<Fail("getcwd", <<>>, 0),
                              Msg("ersh: pwd: failed to get current directory", <<>>, 0)>>)
    IN  After(sys_getcwd(st))

\* builtin_touch returning without close(fd)
builtin_touch_without_close(a, st) ==
    IF a[1] = NULL
    THEN Ret(st, 1, <<Fail("missing argument", <<>>, 1),
                      Msg("ersh: touch: missing argument", <<>>, 1)>>)
    ELSE LET After(r) ==
                 IF r.rc < 0
                 THEN Ret(st, 1, <<Fail("open", a[1], 1),
                                   Msg("ersh: touch: cannot create file: ", a[1], 1)>>)
                 ELSE [status |-> 0, fs |-> r.fs, cwd |-> st.cwd,
                       log |-> <<Acquire("open", a[1])>>]
         IN  After(sys_open_creat(st, a[1]))

builtin_touch(a, st) ==
    IF a[1] = NULL
    THEN Ret(st, 1, <<Fail("missing argument", <<>>, 1),
                      Msg("ersh: touch: missing argument", <<>>, 1)>>)
    ELSE LET After(r) ==
                 IF r.rc < 0
                 THEN Ret(st, 1, <<Fail("open", a[1], 1),
                                   Msg("ersh: touch: cannot create file: ", a[1], 1)>>)
                 ELSE [status |-> 0, fs |-> r.fs, cwd |-> st.cwd,
                       log |-> <<Acquire("open", a[1]), Release("close", a[1])>>]
         IN  After(sys_open_creat(st, a[1]))

\* remove_directory_recursive(path): its return value and the filesystem it
\* leaves.  RemoveLoop is its readdir loop over the names still to come,
\* followed by the final rmdir.
RECURSIVE remove_directory_recursive(_, _)
RECURSIVE RemoveLoop(_, _, _)
RemoveLoop(st, path, names) ==
    IF names = <<>>
    THEN LET Last(r) == [rc |-> r.rc, fs |-> r.fs, log |-> <<Release("closedir", path)>>]
         IN  Last(sys_rmdir(st, path))
    ELSE LET name == Head(names)
             Then(l, r) == [r EXCEPT !.log = l \o @]
             \* the child was a directory and the recursive call returned r
             Recursed(r) ==
                 IF r.rc # 0
                 THEN [rc |-> -1, fs |-> r.fs, log |-> r.log \o <<Release("closedir", path)>>]
                 ELSE Then(r.log, RemoveLoop([st EXCEPT !.fs = r.fs], path, Tail(names)))
             Unlinked(u) ==
                 IF u.rc # 0
                 THEN [rc |-> -1, fs |-> st.fs, log |-> <<Release("closedir", path)>>]
                 ELSE RemoveLoop([st EXCEPT !.fs = u.fs], path, Tail(names))
             Statted(fullpath, s) ==
                 IF s.rc # 0
                 THEN [rc |-> -1, fs |-> st.fs, log |-> <<Release("closedir", path)>>]
                 ELSE IF s.node.kind = "dir"
                      THEN Recursed(remove_directory_recursive(st, fullpath))
                      ELSE Unlinked(sys_unlink(st, fullpath))
             Child(fullpath) == Statted(fullpath, sys_stat(st, fullpath))
         IN  IF name = Dot \/ name = DotDot
             THEN RemoveLoop(st, path, Tail(names))
             ELSE Child(JoinPath(path, name))

remove_directory_rollback(st, path) ==
    LET Undo(r) == IF r.rc # 0 THEN [rc |-> -1, fs |-> st.fs, log |-> r.log] ELSE r
        Entered(r) == [r EXCEPT !.log = <<Acquire("opendir", path)>> \o @]
        Opened(dir) == IF ~dir.ok THEN [rc |-> -1, fs |-> st.fs, log |-> <<>>]
                       ELSE Undo(Entered(RemoveLoop(st, path, dir.names)))
    IN  Opened(sys_opendir(st, path))

remove_directory_recursive(st, path) ==
    LET Entered(r) == [r EXCEPT !.log = <<Acquire("opendir", path)>> \o @]
        Opened(dir) == IF ~dir.ok THEN [rc |-> -1, fs |-> st.fs, log |-> <<>>]
                       ELSE Entered(RemoveLoop(st, path, dir.names))
    IN  Opened(sys_opendir(st, path))

RECURSIVE RmFlagsAllRecursive(_, _, _, _)
RmFlagsAllRecursive(a, idx, force, recursive) ==
    IF a[idx] # NULL /\ a[idx][1] = "-"
    THEN RmFlagsAllRecursive(a, idx + 1, force \/ HasFlag(a[idx], "f"), TRUE)
    ELSE [idx |-> idx, force |-> force, recursive |-> TRUE]

\* The flag loop of builtin_rm
RECURSIVE RmFlags(_, _, _, _)
RmFlags(a, idx, force, recursive) ==
    IF a[idx] # NULL /\ a[idx][1] = "-"
    THEN RmFlags(a, idx + 1,
                 force \/ HasFlag(a[idx], "f"),
                 recursive \/ HasFlag(a[idx], "r") \/ HasFlag(a[idx], "R"))
    ELSE [idx |-> idx, force |-> force, recursive |-> recursive]

\* Whether builtin_rm writes its message for a failed stat, unlink or
\* recursive removal and returns 1 (otherwise it goes on to the next path)
RmReportsAlways(force) == TRUE
RmReportsNever(force) == FALSE
RmReports(force) == ~force

\* "Process each path argument": the loop of builtin_rm from operand idx on
RECURSIVE RmLoop(_, _, _, _, _)
RmLoop(a, idx, fl, st, l) ==
    IF a[idx] = NULL THEN Ret(st, 0, l)
    ELSE LET path == a[idx]
             \* the path is a directory and -r was given
             Removed(r, st2) ==
                 IF r.rc # 0
                 THEN IF RmReports(fl.force)
                      THEN Ret(st2, 1, l \o r.log \o
                                       <<Fail("remove_directory_recursive", path, idx),
                                         Msg("ersh: rm: cannot remove directory: ", path, idx)>>)
                      ELSE RmLoop(a, idx + 1, fl, st2,
                                  l \o r.log \o <<Fail("remove_directory_recursive", path, idx)>>)
                 ELSE RmLoop(a, idx + 1, fl, st2, l \o r.log)
             Recurse(r) == Removed(r, [st EXCEPT !.fs = r.fs])
             \* the path is no directory
             Unlinked(u, st2) ==
                 IF u.rc # 0
                 THEN IF RmReports(fl.force)
                      THEN Ret(st2, 1, l \o <<Fail("unlink", path, idx),
                                              Msg("ersh: rm: cannot remove file: ", path, idx)>>)
                      ELSE RmLoop(a, idx + 1, fl, st2, Append(l, Fail("unlink", path, idx)))
                 ELSE RmLoop(a, idx + 1, fl, st2, l)
             Unlink(u) == Unlinked(u, [st EXCEPT !.fs = u.fs])
             \* the path is a directory and -r was not given
             NotRecursive(l2) ==
                 IF ~fl.force THEN Ret(st, 1, l2) ELSE RmLoop(a, idx + 1, fl, st, l2)
             Statted(s) ==
                 IF s.rc # 0
                 THEN IF RmReports(fl.force)
                      THEN Ret(st, 1, l \o <<Fail("stat", path, idx),
                                             Msg("ersh: rm: cannot stat: ", path, idx)>>)
                      ELSE RmLoop(a, idx + 1, fl, st, Append(l, Fail("stat", path, idx)))
                 ELSE IF s.node.kind = "dir"
                 THEN IF ~fl.recursive
                      THEN NotRecursive(l \o
                               <<Fail("is a directory", path, idx),
                                 Msg("ersh: rm: cannot remove directory (use -r): ", path, idx)>>)
                      ELSE Recurse(remove_directory_recursive(st, path))
                 ELSE Unlink(sys_unlink(st, path))
         IN  Statted(sys_stat(st, path))

builtin_rm_remover_status(a, st) ==
    IF a[1] = NULL
    THEN Ret(st, 1, <<Fail("missing argument", <<>>, 1),
                      Msg("ersh: rm: missing argument", <<>>, 1)>>)
    ELSE LET Raw(r) ==
                 IF /\ r.log # <<>>
                    /\ r.log[Len(r.log)].what = "ersh: rm: cannot remove directory: "
                 THEN [r EXCEPT !.status = 0 - 1] ELSE r
             Paths(fl) ==
                 IF a[fl.idx] = NULL
                 THEN Ret(st, 1, <<Fail("missing operand", <<>>, fl.idx),
                                   Msg("ersh: rm: missing operand", <<>>, fl.idx)>>)
                 ELSE Raw(RmLoop(a, fl.idx, fl, st, <<>>))
         IN  Paths(RmFlags(a, 1, FALSE, FALSE))

builtin_rm(a, st) ==
    IF a[1] = NULL
    THEN Ret(st, 1, <<Fail("missing argument", <<>>, 1),
                      Msg("ersh: rm: missing argument", <<>>, 1)>>)
    ELSE LET Paths(fl) ==
                 IF a[fl.idx] = NULL
                 THEN Ret(st, 1, <<Fail("missing operand", <<>>, fl.idx),
                                   Msg("ersh: rm: missing operand", <<>>, fl.idx)>>)
                 ELSE RmLoop(a, fl.idx, fl, st, <<>>)
         IN  Paths(RmFlags(a, 1, FALSE, FALSE))

----------------------------------------------------------------------------
(* execute: the dispatcher and the process launcher *)

IsPrefix(p, t) == Len(p) <= Len(t) /\ SubSeq(t, 1, Len(p)) = p

\* The chain of strcmp tests of execute after the test for "cd"
TargetAfterCd(a) ==
    IF a[0] = S_exit THEN "exit"
    ELSE IF a[0] = S_help THEN "help"
    ELSE IF a[0] = S_ls THEN "ls"
    ELSE IF a[0] = S_mkdir THEN "mkdir"
    ELSE IF a[0] = S_poweroff THEN "poweroff"
    ELSE IF a[0] = S_pwd THEN "pwd"
    ELSE IF a[0] = S_rm THEN "rm"
    ELSE IF a[0] = S_touch THEN "touch"
    ELSE "launcher"

TargetByPrefix(a) ==
    IF a[0] = NULL THEN "none"
    ELSE IF IsPrefix(S_cd, a[0]) THEN "cd"
    ELSE TargetAfterCd(a)

\* What execute does with the vector: nothing, a built-in, or the launcher
Target(a) ==
    IF a[0] = NULL THEN "none"
    ELSE IF a[0] = S_cd THEN "cd"
    ELSE TargetAfterCd(a)

\* The built-ins that return to the loop
Returning == {"cd", "help", "ls", "mkdir", "pwd", "rm", "touch"}

Handler(t, a, st) ==
    CASE t = "cd" -> builtin_cd(a, st)
      [] t = "help" -> builtin_help(a, st)
      [] t = "ls" -> builtin_ls(a, st)
      [] t = "mkdir" -> builtin_mkdir(a, st)
      [] t = "pwd" -> builtin_pwd(a, st)
      [] t = "rm" -> builtin_rm(a, st)
      [] t = "touch" -> builtin_touch(a, st)

\* execute(args) where it returns without creating a process
execute(a, st) ==
    LET Logged(t, r) == [r EXCEPT !.log = <<Call("execute"), Call(t)>> \o r.log]
        Routed(t) == IF t = "none" THEN Ret(st, 0, <<>>)
                     ELSE Logged(t, Handler(t, a, st))
    IN  Routed(Target(a))

\* The wait status waitpid stores for a child that ended by exit(val), by
\* signal val, or by signal val with a core dump
WaitStatus(end) ==
    CASE end.how = "exit" -> (end.val % 256) * 256
      [] end.how = "signal" -> end.val
      [] end.how = "core" -> end.val + 128

WIFEXITED(w) == w % 128 = 0
WEXITSTATUS(w) == (w \div 256) % 256

LauncherStatusNoCheck(w) == WEXITSTATUS(w)
\* return WIFEXITED(status) ? WEXITSTATUS(status) : 1
LauncherStatus(w) == IF WIFEXITED(w) THEN WEXITSTATUS(w) ELSE 1

\* The child after execvp failed: it has written its message and _exit(127)
ChildFallsThrough(c) == [c EXCEPT !.pc = "loop"]
ChildAfterExecFail(c) ==
    [c EXCEPT !.pc = "zombie", !.end = [how |-> "exit", val |-> 127]]

\* The status execute returns when fork failed
ForkFailStatusPid == 0 - 1
ForkFailStatus == 1

\* Where the parent goes after a successful fork: it blocks in waitpid
NoWaitAfterFork == "AWAIT_LINE"
PcAfterFork == "WAIT_CHILD"

\* main: the return value of execute is dropped and the loop goes on
LoopStopsOnFailure(rc) == IF rc # 0 THEN "TERMINATED" ELSE "AWAIT_LINE"
LoopAfter(rc) == "AWAIT_LINE"

\* main: if (parse_args(line, args) > 0) execute(args);
PcAfterParseAlways(cnt) == "DISPATCH"
PcAfterParse(cnt) == IF cnt > 0 THEN "DISPATCH" ELSE "AWAIT_LINE"

----------------------------------------------------------------------------
(* The world the interpreter runs in *)

\* How many child processes the system can hold at once (fork fails beyond)
MaxChildren == 2
Pids == 1..MaxChildren

\* The programs execvp finds on the search path
S_true == <<"t", "r", "u", "e">>
PathPrograms == {S_true}

\* What a started program may end with
ExitCodes == {0, 2, 127, 255}
Signals == {9}

P_d == <<"/", "d">>
P_o == <<"/", "o">>
P_p == <<"/", "p">>
P_w == <<"/", "w">>

InitialFs ==
    (Root :> DirNode(493))
    @@ (P_d :> DirNode(493))
    @@ (ChildPath(P_d, <<"a">>) :> FileNode(420, 12))
    @@ (ChildPath(P_d, <<"s">>) :> DirNode(493))
    @@ (ChildPath(ChildPath(P_d, <<"s">>), <<"b">>) :> FileNode(420, 0))
    @@ (<<"/", "f">> :> FileNode(420, 0))
    @@ (<<"/", ".", "h">> :> FileNode(420, 0))
    @@ (P_o :> DirNode(493))
    @@ (ChildPath(P_o, <<"x">>) :> FileNode(420, 0))
    @@ (P_w :> DirNode(493))
    @@ (ChildPath(P_w, <<"l">>) :> LinkNode(P_o))
    @@ (P_p :> DirNode(493))
    @@ (ChildPath(P_p, <<"k">>) :> [FileNode(420, 0) EXCEPT !.imm = TRUE])

RECURSIVE JoinTokens(_)
JoinTokens(toks) ==
    IF toks = <<>> THEN <<>>
    ELSE IF Len(toks) = 1 THEN toks[1]
    ELSE toks[1] \o <<" ">> \o JoinTokens(Tail(toks))

\* A line typed at the prompt: the tokens, single spaces, a newline
Typed(toks) == JoinTokens(toks) \o <<"\n">>

F_f == <<"-", "f">>
F_r == <<"-", "r">>
F_rf == <<"-", "r", "f">>
N_q == <<"q">>
N_d == <<"d">>
N_f == <<"f">>
N_p == <<"p">>
N_pk == <<"p", "/", "k">>

\* What one read of standard input may deliver
Inputs ==
    { <<"\n">>,
      <<" ", "\t", " ", "\n">>,
      <<"\t">> \o S_pwd \o <<" ", "\n">>,
      S_pwd \o <<NUL>> \o S_exit \o <<"\n">>,
      Typed(<<S_cd>>), Typed(<<S_cd, N_d>>), Typed(<<S_cd, N_q>>), Typed(<<S_cd, Root>>),
      Typed(<<S_exit>>), Typed(<<S_exit, <<"1">> >>),
      Typed(<<S_help>>), Typed(<<S_help, S_rm>>), Typed(<<S_help, N_q>>),
      Typed(<<S_ls>>), Typed(<<S_ls, <<"-", "a">> >>), Typed(<<S_ls, N_q>>),
      Typed(<<S_ls, <<"-", "a", "l">>, <<"w">> >>), Typed(<<S_ls, <<"-", "l">>, N_d>>),
      Typed(<<S_mkdir>>), Typed(<<S_mkdir, <<"t">> >>), Typed(<<S_mkdir, P_p>>),
      Typed(<<S_poweroff>>),
      Typed(<<S_pwd>>),
      Typed(<<S_rm>>), Typed(<<S_rm, F_f>>), Typed(<<S_rm, N_f>>), Typed(<<S_rm, N_q>>),
      Typed(<<S_rm, F_f, N_q, N_f>>), Typed(<<S_rm, F_f, N_q, N_d>>),
      Typed(<<S_rm, N_d>>), Typed(<<S_rm, F_f, N_d, N_f>>),
      Typed(<<S_rm, F_r, N_d>>), Typed(<<S_rm, F_r, N_p>>), Typed(<<S_rm, F_rf, N_p>>),
      Typed(<<S_rm, F_r, P_d>>), Typed(<<S_rm, F_r, <<"o">> >>), Typed(<<S_rm, F_r, <<"w">> >>),
      Typed(<<S_rm, N_pk>>), Typed(<<S_rm, F_f, N_pk>>),
      Typed(<<S_touch>>), Typed(<<S_touch, <<"n">> >>), Typed(<<S_touch, P_p>>),
      Typed(<<S_touch, N_f>>), Typed(<<S_touch, <<"d", "/", "a">> >>),
      Typed(<<S_true>>), Typed(<<N_q>>),
      Typed(<<<<"c">>>>), Typed(<<<<"c", "d", "x">>>>), Typed(<<<<"C", "D">>>>) }

\* The command buffer read as a C string: it ends before the first NUL
RECURSIVE CString(_)
CString(buf) ==
    IF buf = <<>> \/ Head(buf) = NUL THEN <<>>
    ELSE <<Head(buf)>> \o CString(Tail(buf))

NotTerminated == [how |-> "running", code |-> 0]

Env == [fs |-> fs, cwd |-> cwd, rev |-> rev]

----------------------------------------------------------------------------
(* Spec: the interpreter loop *)

Init ==
    /\ pline = <<>> /\ pres = NoResult
    /\ pc = "AWAIT_LINE"
    /\ line = <<>> /\ n = 0 /\ argc = 0 /\ args = (0 :> NULL)
    /\ fs = InitialFs /\ cwd = Root
    /\ rev \in BOOLEAN
    /\ children = <<>> /\ waitFor = 0
    /\ log = <<>> /\ status = 0 /\ term = NotTerminated
    /\ AuxIdle

\* main: the prompt, then read delivers input; the buffer is terminated
ReadLine ==
    /\ pc = "AWAIT_LINE"
    /\ \E buf \in Inputs :
          /\ Len(buf) <= MAX_CMD_LEN - 1
          /\ n' = Len(buf)
          /\ line' = CString(buf)
    /\ pc' = "PARSE"
    /\ log' = <<>>
    \* the views of args into the overwritten buffer are no longer valid
    /\ argc' = 0 /\ args' = (0 :> NULL)
    /\ status' = 0
    /\ UNCHANGED <<fs, cwd, rev, children, waitFor, term, parseVars, auxVars>>

ReadEndWithLastStatus ==
    /\ pc = "AWAIT_LINE"
    /\ n' \in {0, 0 - 1}
    /\ pc' = "TERMINATED"
    /\ term' = [how |-> "end of input", code |-> status]
    /\ log' = <<>>
    /\ UNCHANGED <<line, argc, args, fs, cwd, rev, children, waitFor, status, parseVars, auxVars>>

\* main: read returns 0 (end of input) or -1: break, write "\n", return 0
ReadEnd ==
    /\ pc = "AWAIT_LINE"
    /\ n' \in {0, 0 - 1}
    /\ pc' = "TERMINATED"
    /\ term' = [how |-> "end of input", code |-> 0]
    /\ log' = <<>>
    /\ UNCHANGED <<line, argc, args, fs, cwd, rev, children, waitFor, status, parseVars, auxVars>>

\* main: parse_args(line, args)
Parse ==
    /\ pc = "PARSE"
    /\ \E r \in {parse_args(line)} :
          /\ argc' = r.n
          /\ args' = r.args
          /\ pc' = PcAfterParse(r.n)
    /\ log' = Append(log, Call("parse_args"))
    /\ UNCHANGED <<line, n, fs, cwd, rev, children, waitFor, status, term, parseVars, auxVars>>

\* execute: a built-in that returns to the loop
ExecBuiltin ==
    /\ pc = "DISPATCH"
    /\ Target(args) \in Returning
    /\ \E r \in {execute(args, Env)} :
          /\ fs' = r.fs
          /\ cwd' = r.cwd
          /\ status' = r.status
          /\ log' = log \o r.log
          /\ pc' = LoopAfter(r.status)
    /\ term' = IF pc' = "TERMINATED" THEN [how |-> "failed command", code |-> status'] ELSE term
    /\ UNCHANGED <<line, n, argc, args, rev, children, waitFor, parseVars, auxVars>>

\* execute: builtin_exit
ExecExit ==
    /\ pc = "DISPATCH"
    /\ Target(args) = "exit"
    /\ log' = log \o <<Call("execute"), Call("exit")>>
    /\ pc' = "TERMINATED"
    /\ term' = [how |-> "exit", code |-> 0]
    /\ UNCHANGED <<line, n, argc, args, fs, cwd, rev, children, waitFor, status, parseVars, auxVars>>

\* execute: builtin_poweroff, execl succeeds and replaces the image
ExecPoweroff ==
    /\ pc = "DISPATCH"
    /\ Target(args) = "poweroff"
    /\ log' = log \o <<Call("execute"), Call("poweroff"),
                       Out("Exiting shell and powering off...", <<>>, 0),
                       Out("sync", <<>>, 0), Out("execl /bin/poweroff", <<>>, 0)>>
    /\ pc' = "TERMINATED"
    /\ term' = [how |-> "poweroff image", code |-> 0]
    /\ UNCHANGED <<line, n, argc, args, fs, cwd, rev, children, waitFor, status, parseVars, auxVars>>

ExecPoweroffFailReturns ==
    /\ pc = "DISPATCH"
    /\ Target(args) = "poweroff"
    /\ log' = log \o <<Call("execute"), Call("poweroff"),
                       Out("Exiting shell and powering off...", <<>>, 0),
                       Out("sync", <<>>, 0), Fail("execl", <<>>, 0)>>
    /\ pc' = "AWAIT_LINE"
    /\ status' = 1
    /\ UNCHANGED <<line, n, argc, args, fs, cwd, rev, children, waitFor, term, parseVars, auxVars>>

\* execute: builtin_poweroff, execl fails and the shell calls exit(0)
ExecPoweroffFail ==
    /\ pc = "DISPATCH"
    /\ Target(args) = "poweroff"
    /\ log' = log \o <<Call("execute"), Call("poweroff"),
                       Out("Exiting shell and powering off...", <<>>, 0),
                       Out("sync", <<>>, 0), Fail("execl", <<>>, 0)>>
    /\ pc' = "TERMINATED"
    /\ term' = [how |-> "exit after poweroff", code |-> 0]
    /\ UNCHANGED <<line, n, argc, args, fs, cwd, rev, children, waitFor, status, parseVars, auxVars>>

\* execute: fork succeeds; the parent goes on to waitpid(pid, &status, 0)
Fork ==
    /\ pc = "DISPATCH"
    /\ Target(args) = "launcher"
    /\ \E pid \in Pids \ DOMAIN children :
          /\ children' = children @@
                (pid :> [pc |-> "forked", argv |-> args, cwd |-> cwd,
                         end |-> [how |-> "none", val |-> 0]])
          /\ waitFor' = pid
    /\ log' = log \o <<Call("execute"), Call("launcher")>>
    /\ pc' = PcAfterFork
    /\ UNCHANGED <<line, n, argc, args, fs, cwd, rev, status, term, parseVars, auxVars>>

\* execute: fork fails
ForkFail ==
    /\ pc = "DISPATCH"
    /\ Target(args) = "launcher"
    /\ log' = log \o <<Call("execute"), Call("launcher"),
                       Fail("fork", <<>>, 0), Msg("ersh: fork failed", <<>>, 0)>>
    /\ status' = ForkFailStatus
    /\ pc' = LoopAfter(ForkFailStatus)
    /\ term' = IF pc' = "TERMINATED" THEN [how |-> "failed command", code |-> status'] ELSE term
    /\ UNCHANGED <<line, n, argc, args, fs, cwd, rev, children, waitFor, parseVars, auxVars>>

\* the child: execvp(args[0], args) finds the program
ChildExec(pid) ==
    /\ pid \in DOMAIN children
    /\ children[pid].pc = "forked"
    /\ children[pid].argv[0] \in PathPrograms
    /\ children' = [children EXCEPT ![pid].pc = "running"]
    /\ UNCHANGED <<pc, line, n, argc, args, fs, cwd, rev, waitFor, log, status, term, parseVars, auxVars>>

\* the child: execvp fails; message, _exit(127)
ChildExecFail(pid) ==
    /\ pid \in DOMAIN children
    /\ children[pid].pc = "forked"
    /\ children[pid].argv[0] \notin PathPrograms
    /\ log' = log \o <<Fail("execvp", children[pid].argv[0], 0),
                       Msg("ersh: command not found: ", children[pid].argv[0], 0)>>
    /\ children' = [children EXCEPT ![pid] = ChildAfterExecFail(children[pid])]
    /\ UNCHANGED <<pc, line, n, argc, args, fs, cwd, rev, waitFor, status, term, parseVars, auxVars>>

\* the program the child became ends by itself
ChildExit(pid) ==
    /\ pid \in DOMAIN children
    /\ children[pid].pc = "running"
    /\ \E code \in ExitCodes :
          children' = [children EXCEPT ![pid].pc = "zombie",
                                       ![pid].end = [how |-> "exit", val |-> code]]
    /\ UNCHANGED <<pc, line, n, argc, args, fs, cwd, rev, waitFor, log, status, term, parseVars, auxVars>>

\* the child is killed by a signal, before or after execvp
ChildKilled(pid) ==
    /\ pid \in DOMAIN children
    /\ children[pid].pc \in {"forked", "running"}
    /\ \E sig \in Signals, how \in {"signal", "core"} :
          children' = [children EXCEPT ![pid].pc = "zombie",
                                       ![pid].end = [how |-> how, val |-> sig]]
    /\ UNCHANGED <<pc, line, n, argc, args, fs, cwd, rev, waitFor, log, status, term, parseVars, auxVars>>

\* execute: waitpid returns with the child's status, which is mapped
WaitChild ==
    /\ pc = "WAIT_CHILD"
    /\ waitFor \in DOMAIN children
    /\ children[waitFor].pc = "zombie"
    /\ status' = LauncherStatus(WaitStatus(children[waitFor].end))
    /\ children' = [p \in DOMAIN children \ {waitFor} |-> children[p]]
    /\ waitFor' = 0
    /\ pc' = LoopAfter(status')
    /\ term' = IF pc' = "TERMINATED" THEN [how |-> "failed command", code |-> status'] ELSE term
    /\ UNCHANGED <<line, n, argc, args, fs, cwd, rev, log, parseVars, auxVars>>

Next ==
    \/ ReadLine
    \/ ReadEnd
    \/ Parse
    \/ ExecBuiltin
    \/ ExecExit
    \/ ExecPoweroff
    \/ ExecPoweroffFail
    \/ Fork
    \/ ForkFail
    \/ \E pid \in Pids : ChildExec(pid)
    \/ \E pid \in Pids : ChildExecFail(pid)
    \/ \E pid \in Pids : ChildExit(pid)
    \/ \E pid \in Pids : ChildKilled(pid)
    \/ WaitChild

Spec == Init /\ [][Next]_vars

----------------------------------------------------------------------------
(* SpecRm: one rm command line, dispatched over a family of file systems *)

P_f == <<"/", "f">>
P_q == <<"/", "q">>
P_da == ChildPath(P_d, <<"a">>)
P_dc == ChildPath(P_d, <<"c">>)
P_dl == ChildPath(P_d, <<"l">>)
P_ds == ChildPath(P_d, <<"s">>)
P_dsb == ChildPath(P_ds, <<"b">>)
P_dse == ChildPath(P_ds, <<"e">>)

\* /d holds the files a and c and the directory s with the files b and e;
\* beside it the files /f and /g and the directory /o with the file x
RmBase ==
    (Root :> DirNode(493))
    @@ (P_d :> DirNode(493))
    @@ (P_da :> FileNode(420, 12))
    @@ (P_dc :> FileNode(420, 0))
    @@ (P_ds :> DirNode(493))
    @@ (P_dsb :> FileNode(420, 0))
    @@ (P_dse :> FileNode(420, 0))
    @@ (P_f :> FileNode(420, 0))
    @@ (<<"/", "g">> :> FileNode(420, 0))
    @@ (P_o :> DirNode(493))
    @@ (ChildPath(P_o, <<"x">>) :> FileNode(420, 0))

\* The files that may be immutable (unlink fails on them)
RmImmutable == {P_da, P_dc, P_dsb, P_dse, P_f}

\* What the symbolic link /d/l points to, if it exists (<<>>: no link): a
\* directory, nothing, a file
RmLinkTargets == {<<>>, P_o, P_q, P_f}

RmTree(imm, target) ==
    [p \in DOMAIN RmBase |-> [RmBase[p] EXCEPT !.imm = p \in imm]]
    @@ (IF target = <<>> THEN <<>> ELSE (P_dl :> LinkNode(target)))

RmTrees == {RmTree(imm, target) : imm \in SUBSET RmImmutable, target \in RmLinkTargets}

N_g == <<"g">>
N_ds == <<"d", "/", "s">>
N_da == <<"d", "/", "a">>

RmFlagTokens ==
    {<<>>, <<F_f>>, <<F_r>>, <<F_rf>>, <<<<"-", "R">>>>, <<F_r, F_f>>}

RmOperands ==
    {<<>>, <<N_d>>, <<N_f>>, <<N_q>>, <<N_q, N_f>>, <<N_f, N_g>>, <<N_f, N_q, N_g>>,
     <<N_d, N_f>>, <<N_f, N_d, N_g>>, <<N_ds>>, <<N_da, N_d>>}

RmLines == {Typed(<<S_rm>> \o fl \o ops) : fl \in RmFlagTokens, ops \in RmOperands}

\* The interpreter has read and parsed an rm command line
InitRm ==
    /\ pline = <<>> /\ pres = NoResult
    /\ pc = "DISPATCH"
    /\ \E buf \in RmLines :
          /\ n = Len(buf)
          /\ line = CString(buf)
          /\ \E r \in {parse_args(CString(buf))} : argc = r.n /\ args = r.args
    /\ fs \in RmTrees /\ cwd = Root
    /\ rev \in BOOLEAN
    /\ children = <<>> /\ waitFor = 0
    /\ log = <<Call("parse_args")>> /\ status = 0 /\ term = NotTerminated
    /\ AuxIdle

NextRm == ExecBuiltin

SpecRm == InitRm /\ [][NextRm]_vars

----------------------------------------------------------------------------
(* SpecSize: write_size_aligned applied to file sizes of one to nineteen   *)
(* digits                                                                  *)

SizeHigh == {0, 1, 9, 10, 99, 100, 999999, 2147483647}
SizeLow ==
    {0, 1, 5, 9, 10, 12, 99, 100, 999, 1000, 9999, 10000, 99999, 100000, 999999,
     1000000, 9999999, 10000000, 99999999, 100000000, 999999999}
Sizes == {[hi |-> h, lo |-> l] : h \in SizeHigh, l \in SizeLow}

InitSize ==
    /\ fsize \in Sizes
    /\ written = NoResult
    /\ pline = <<>> /\ pres = NoResult
    /\ ShellIdle
    /\ ReadIdle /\ DeepIdle /\ BootIdle

WriteSize ==
    /\ written = NoResult
    /\ written' = write_size_aligned(fsize)
    /\ UNCHANGED <<fsize, parseVars, shellVars, readVars, deepVars, bootVars>>

NextSize == WriteSize

SpecSize == InitSize /\ [][NextSize]_vars

----------------------------------------------------------------------------
(* SpecHelp: one help command line, dispatched *)

\* The names execute compares the first token with
BuiltinNames == {S_cd, S_exit, S_help, S_ls, S_mkdir, S_poweroff, S_pwd, S_rm, S_touch}

\* Operands of help: every built-in name, and near misses of each
HelpOperands ==
    UNION {{nm, nm \o <<"x">>, SubSeq(nm, 1, Len(nm) - 1), <<"-">> \o nm} : nm \in BuiltinNames}
    \cup {S_true, N_q}

HelpLines ==
    {Typed(<<S_help>>), Typed(<<S_help, S_rm, S_ls>>), Typed(<<S_help, N_q, S_rm>>)}
    \cup {Typed(<<S_help, o>>) : o \in HelpOperands}

InitHelp ==
    /\ pline = <<>> /\ pres = NoResult
    /\ pc = "DISPATCH"
    /\ \E buf \in HelpLines :
          /\ n = Len(buf)
          /\ line = CString(buf)
          /\ \E r \in {parse_args(CString(buf))} : argc = r.n /\ args = r.args
    /\ fs = InitialFs /\ cwd = Root
    /\ rev \in BOOLEAN
    /\ children = <<>> /\ waitFor = 0
    /\ log = <<Call("parse_args")>> /\ status = 0 /\ term = NotTerminated
    /\ AuxIdle

NextHelp == ExecBuiltin

SpecHelp == InitHelp /\ [][NextHelp]_vars

----------------------------------------------------------------------------
(* SpecRead: the interpreter loop on a standard input that is a stream of  *)
(* bytes.  read(0, line, sizeof(line) - 1) returns as many of the bytes    *)
(* available as fit, at least one: where the lines end is nothing read     *)
(* looks at.                                                               *)

Streams ==
    { Typed(<<S_pwd>>) \o Typed(<<S_exit>>),
      Typed(<<S_cd, N_d>>) \o Typed(<<S_pwd>>),
      Typed(<<S_mkdir, <<"t">> >>) \o Typed(<<S_ls>>),
      Typed(<<S_true>>) \o Typed(<<S_exit>>) }

InitRead ==
    /\ pline = <<>> /\ pres = NoResult
    /\ pc = "AWAIT_LINE"
    /\ line = <<>> /\ n = 0 /\ argc = 0 /\ args = (0 :> NULL)
    /\ fs = InitialFs /\ cwd = Root
    /\ rev \in BOOLEAN
    /\ children = <<>> /\ waitFor = 0
    /\ log = <<>> /\ status = 0 /\ term = NotTerminated
    /\ SizeIdle /\ DeepIdle /\ BootIdle
    /\ stdin \in Streams /\ taken = <<>>

\* main: read returns k > 0 bytes; the buffer is terminated
ReadChunk ==
    /\ pc = "AWAIT_LINE"
    /\ stdin # <<>>
    /\ \E k \in 1..Min(Len(stdin), MAX_CMD_LEN - 1) :
          /\ n' = k
          /\ line' = CString(SubSeq(stdin, 1, k))
          /\ taken' = taken \o SubSeq(stdin, 1, k)
          /\ stdin' = SubSeq(stdin, k + 1, Len(stdin))
    /\ pc' = "PARSE"
    /\ log' = <<>>
    /\ argc' = 0 /\ args' = (0 :> NULL)
    /\ status' = 0
    /\ UNCHANGED <<fs, cwd, rev, children, waitFor, term, parseVars, sizeVars, deepVars,
                   bootVars>>

\* main: read returns 0 at the end of the stream: break, return 0
ReadEof ==
    /\ pc = "AWAIT_LINE"
    /\ stdin = <<>>
    /\ n' = 0
    /\ pc' = "TERMINATED"
    /\ term' = [how |-> "end of input", code |-> 0]
    /\ log' = <<>>
    /\ UNCHANGED <<line, argc, args, fs, cwd, rev, children, waitFor, status, parseVars, auxVars>>

NextRead ==
    \/ ReadChunk
    \/ ReadEof
    \/ Parse
    \/ ExecBuiltin
    \/ ExecExit
    \/ Fork
    \/ ForkFail
    \/ \E pid \in Pids : ChildExec(pid)
    \/ \E pid \in Pids : ChildExecFail(pid)
    \/ \E pid \in Pids : ChildExit(pid)
    \/ \E pid \in Pids : ChildKilled(pid)
    \/ WaitChild

SpecRead == InitRead /\ [][NextRead]_vars

----------------------------------------------------------------------------
(* SpecDeep: remove_directory_recursive call by call, on directories whose *)
(* paths come close to the 1023 characters fullpath can hold.  Each active *)
(* call holds the handle opendir gave it; opendir fails when the process   *)
(* holds MaxDirHandles of them.                                            *)

MaxDirHandles == 4

\* A name of k characters
LongName(k) == [i \in 1..k |-> "a"]

\* The operand of rm -r: three directories with names of 255 characters
\* and below them one with a name of k
DeepOperand(k) ==
    LongName(255) \o <<"/">> \o LongName(255) \o <<"/">> \o LongName(255)
    \o <<"/">> \o LongName(k)

DeepLast == 245..248
DeepFiles == {<<"x">>, <<"x", "y">>}

\* Below the operand the directory eeeee, and in it one file
DeepFs(k, file) ==
    LET A == ChildPath(Root, LongName(255))
        B == ChildPath(A, LongName(255))
        C == ChildPath(B, LongName(255))
        D == ChildPath(C, LongName(k))
        E == ChildPath(D, <<"e", "e", "e", "e", "e">>)
    IN  (Root :> DirNode(493)) @@ (A :> DirNode(493)) @@ (B :> DirNode(493))
        @@ (C :> DirNode(493)) @@ (D :> DirNode(493)) @@ (E :> DirNode(493))
        @@ (ChildPath(E, file) :> FileNode(420, 0))

InitDeep ==
    /\ pline = <<>> /\ pres = NoResult
    /\ pc = "DISPATCH"
    /\ line = <<>> /\ n = 0 /\ argc = 0 /\ args = (0 :> NULL)
    /\ \E k \in DeepLast, file \in DeepFiles :
          /\ fs = DeepFs(k, file)
          /\ pend = DeepOperand(k)
    /\ cwd = Root
    /\ rev \in BOOLEAN
    /\ children = <<>> /\ waitFor = 0
    /\ log = <<>> /\ status = 0 /\ term = NotTerminated
    /\ SizeIdle /\ ReadIdle /\ BootIdle
    /\ frames = <<>> /\ rv = <<>>

DeepRest == <<parseVars, pc, line, n, argc, args, cwd, rev, children, waitFor, status, term,
              sizeVars, readVars, bootVars>>

Top == frames[Len(frames)]
Popped == SubSeq(frames, 1, Len(frames) - 1)

\* remove_directory_recursive(pend) begins: opendir
RdrEnter ==
    /\ pend # NULL
    /\ \E dir \in {sys_opendir(Env, pend)} :
          IF ~dir.ok \/ Len(frames) >= MaxDirHandles
          THEN /\ rv' = <<0 - 1>>
               /\ log' = log
               /\ frames' = frames
          ELSE /\ rv' = <<>>
               /\ log' = Append(log, Acquire("opendir", pend))
               /\ frames' = Append(frames, [path |-> pend, names |-> dir.names])
    /\ pend' = NULL
    /\ UNCHANGED <<fs, DeepRest>>

\* One turn of the readdir loop of the innermost call
RdrEntry ==
    /\ pend = NULL /\ rv = <<>>
    /\ frames # <<>> /\ Top.names # <<>>
    /\ \E name \in {Head(Top.names)} :
          IF name = Dot \/ name = DotDot
          THEN /\ frames' = [frames EXCEPT ![Len(frames)].names = Tail(@)]
               /\ UNCHANGED <<fs, pend, rv, log>>
          ELSE \E fullpath \in {JoinPath(Top.path, name)} :
               \E s \in {sys_stat(Env, fullpath)} :
                  IF s.rc # 0
                  THEN /\ log' = Append(log, Release("closedir", Top.path))
                       /\ frames' = Popped
                       /\ rv' = <<0 - 1>>
                       /\ UNCHANGED <<fs, pend>>
                  ELSE IF s.node.kind = "dir"
                  THEN /\ pend' = fullpath
                       /\ frames' = [frames EXCEPT ![Len(frames)].names = Tail(@)]
                       /\ UNCHANGED <<fs, rv, log>>
                  ELSE \E u \in {sys_unlink(Env, fullpath)} :
                       IF u.rc # 0
                       THEN /\ log' = Append(log, Release("closedir", Top.path))
                            /\ frames' = Popped
                            /\ rv' = <<0 - 1>>
                            /\ UNCHANGED <<fs, pend>>
                       ELSE /\ fs' = u.fs
                            /\ frames' = [frames EXCEPT ![Len(frames)].names = Tail(@)]
                            /\ UNCHANGED <<pend, rv, log>>
    /\ UNCHANGED DeepRest

\* The recursive call has returned rv to the innermost call still active
RdrResume ==
    /\ pend = NULL /\ rv # <<>>
    /\ frames # <<>>
    /\ IF rv[1] # 0
       THEN /\ log' = Append(log, Release("closedir", Top.path))
            /\ frames' = Popped
            /\ rv' = <<0 - 1>>
       ELSE /\ rv' = <<>>
            /\ UNCHANGED <<frames, log>>
    /\ UNCHANGED <<fs, pend, DeepRest>>

\* readdir has returned NULL: closedir, and return rmdir(path)
RdrLast ==
    /\ pend = NULL /\ rv = <<>>
    /\ frames # <<>> /\ Top.names = <<>>
    /\ \E r \in {sys_rmdir(Env, Top.path)} :
          /\ fs' = r.fs
          /\ rv' = <<r.rc>>
    /\ log' = Append(log, Release("closedir", Top.path))
    /\ frames' = Popped
    /\ UNCHANGED <<pend, DeepRest>>

NextDeep == RdrEnter \/ RdrEntry \/ RdrResume \/ RdrLast

SpecDeep == InitDeep /\ [][NextDeep]_vars

----------------------------------------------------------------------------
(* SpecInit: main of init.c with its two children and sigchld_handler.     *)
(* The handler runs on main's thread whenever SIGCHLD is pending and the   *)
(* handler is not already running; while it runs, main does not advance.   *)
(* A child is none (not created), forked (before its execl), running (the  *)
(* program it executed), zombie (terminated, not waited for), or reaped by *)
(* the handler or by main.                                                 *)

MaxOrphans == 2

InitBoot ==
    /\ pline = <<>> /\ pres = NoResult
    /\ ShellIdle
    /\ SizeIdle /\ ReadIdle /\ DeepIdle
    /\ ipc = "START" /\ hpc = "idle" /\ sigchld = FALSE
    /\ kbd = "none" /\ sh = "none" /\ orphans = 0

BootRest == <<parseVars, shellVars, sizeVars, readVars, deepVars>>

\* main up to signal(): the console, the two writes (a failed write
\* returns 1), the handler installed
BootStart ==
    /\ ipc = "START"
    /\ ipc' \in {"FORK_KBD", "EXITED"}
    /\ UNCHANGED <<hpc, sigchld, kbd, sh, orphans, BootRest>>

\* kbd_pid = fork(): the child is created, or fork fails and the wait is
\* skipped
ForkKbd ==
    /\ ipc = "FORK_KBD" /\ hpc = "idle"
    /\ \/ kbd' = "forked" /\ ipc' = "WAIT_KBD"
       \/ kbd' = "none" /\ ipc' = "FORK_SHELL"
    /\ UNCHANGED <<hpc, sigchld, sh, orphans, BootRest>>

\* The child: execl("/bin/loadkeys", ...) succeeds
KbdExec ==
    /\ kbd = "forked"
    /\ kbd' = "running"
    /\ UNCHANGED <<ipc, hpc, sigchld, sh, orphans, BootRest>>

\* The loadkeys child ends: loadkeys exits, or execl failed and _exit(1)
KbdExit ==
    /\ kbd \in {"forked", "running"}
    /\ kbd' = "zombie"
    /\ sigchld' = TRUE
    /\ UNCHANGED <<ipc, hpc, sh, orphans, BootRest>>

\* waitpid(kbd_pid, NULL, 0) without blocking
WaitKbdNoHang ==
    /\ ipc = "WAIT_KBD" /\ hpc = "idle"
    /\ kbd' = IF kbd = "zombie" THEN "reaped by main" ELSE kbd
    /\ ipc' = "FORK_SHELL"
    /\ UNCHANGED <<hpc, sigchld, sh, orphans, BootRest>>

\* waitpid(kbd_pid, NULL, 0) returns: it reaps the zombie, or the handler
\* has reaped it and there is no such child (ECHILD); while the child runs
\* the call blocks
WaitKbd ==
    /\ ipc = "WAIT_KBD" /\ hpc = "idle"
    /\ kbd \in {"zombie", "reaped by handler"}
    /\ kbd' = IF kbd = "zombie" THEN "reaped by main" ELSE kbd
    /\ ipc' = "FORK_SHELL"
    /\ UNCHANGED <<hpc, sigchld, sh, orphans, BootRest>>

\* pid = fork(): the child runs /bin/ersh; with or without a child main
\* enters the pause loop
ForkShell ==
    /\ ipc = "FORK_SHELL" /\ hpc = "idle"
    /\ sh' \in {"forked", "none"}
    /\ ipc' = "PAUSE"
    /\ UNCHANGED <<hpc, sigchld, kbd, orphans, BootRest>>

\* The child: execl("/bin/ersh", ...) succeeds
ShellExec ==
    /\ sh = "forked"
    /\ sh' = "running"
    /\ UNCHANGED <<ipc, hpc, sigchld, kbd, orphans, BootRest>>

\* The ersh child ends: exit, poweroff, end of input, or execl failed and
\* _exit(1)
ShellExit ==
    /\ sh \in {"forked", "running"}
    /\ sh' = "zombie"
    /\ sigchld' = TRUE
    /\ UNCHANGED <<ipc, hpc, kbd, orphans, BootRest>>

\* A process the shell left behind, inherited by init, ends
OrphanExit ==
    /\ sh \notin {"none", "forked"}
    /\ orphans < MaxOrphans
    /\ orphans' = orphans + 1
    /\ sigchld' = TRUE
    /\ UNCHANGED <<ipc, hpc, kbd, sh, BootRest>>

\* SIGCHLD is delivered: sigchld_handler begins
HandlerEnter ==
    /\ sigchld /\ hpc = "idle"
    /\ ipc \notin {"START", "EXITED"}
    /\ hpc' = "running"
    /\ sigchld' = FALSE
    /\ UNCHANGED <<ipc, kbd, sh, orphans, BootRest>>

\* sigchld_handler: waitpid(-1, NULL, WNOHANG) > 0, one zombie reaped
HandlerReap ==
    /\ hpc = "running"
    /\ \/ kbd = "zombie" /\ kbd' = "reaped by handler" /\ UNCHANGED <<sh, orphans>>
       \/ sh = "zombie" /\ sh' = "reaped by handler" /\ UNCHANGED <<kbd, orphans>>
       \/ orphans > 0 /\ orphans' = orphans - 1 /\ UNCHANGED <<kbd, sh>>
    /\ UNCHANGED <<ipc, hpc, sigchld, BootRest>>

\* sigchld_handler: waitpid returns 0 or -1, the handler returns
HandlerReturn ==
    /\ hpc = "running"
    /\ kbd # "zombie" /\ sh # "zombie" /\ orphans = 0
    /\ hpc' = "idle"
    /\ UNCHANGED <<ipc, sigchld, kbd, sh, orphans, BootRest>>

NextInit ==
    \/ BootStart
    \/ ForkKbd
    \/ KbdExec
    \/ KbdExit
    \/ WaitKbd
    \/ ForkShell
    \/ ShellExec
    \/ ShellExit
    \/ OrphanExit
    \/ HandlerEnter
    \/ HandlerReap
    \/ HandlerReturn

SpecInit == InitBoot /\ [][NextInit]_vars

----------------------------------------------------------------------------
(* Properties of the interpreter loop *)

InLog(e) == \E i \in 1..Len(log) : log[i] = e

\* C1 as written: the terminal state is entered only from the dispatch of
\* exit, the dispatch of poweroff, or a read that reports end of input (a
\* count of 0); nothing else terminates the interpreter.
C1_OnlyExitPoweroffEndOfInput ==
    [][pc' = "TERMINATED" /\ pc # "TERMINATED" =>
          \/ pc = "DISPATCH" /\ args[0] \in {S_exit, S_poweroff}
          \/ pc = "AWAIT_LINE" /\ n' = 0]_vars

\* C1: the terminal state is entered only from the dispatch of exit, the
\* dispatch of poweroff, or a read that returns no data, be it end of input
\* (0) or a failed read (a negative count); no other built-in and no external
\* command, whatever its status, terminates the interpreter.
C1_OnlyExitPoweroffOrNoInput ==
    [][pc' = "TERMINATED" /\ pc # "TERMINATED" =>
          \/ pc = "DISPATCH" /\ args[0] \in {S_exit, S_poweroff}
          \/ pc = "AWAIT_LINE" /\ n' <= 0]_vars

\* The loop ended on a failed read, after commands that changed the file
\* system and a last command that failed
C1_Witness ==
    pc = "TERMINATED" /\ n < 0 /\ status # 0 /\ fs # InitialFs

\* C2 as written: every failure detected is followed at once by one
\* diagnostic message, and every message reports one failure.
C2_EveryFailureReported ==
    \A i \in 1..Len(log) :
        /\ log[i].ev = "fail" => i < Len(log) /\ log[i + 1].ev = "msg"
        /\ log[i].ev = "msg" => i > 1 /\ log[i - 1].ev = "fail"

\* Whether the flag tokens of the rm command line (the tokens before the
\* first one that does not start with '-') hold the letter f
C2_Force ==
    /\ args[0] = S_rm
    /\ \E j \in 1..(argc - 1) :
          /\ \A m \in 1..j : args[m][1] = "-"
          /\ \E i \in 2..Len(args[j]) : args[j][i] = "f"

\* The failures the code detects and passes over without a message
C2_Silent(e) ==
    \/ e.what = "ls: stat"
    \/ e.what = "execl"
    \/ e.what \in {"stat", "unlink", "remove_directory_recursive"} /\ C2_Force

C2_StateOk ==
    /\ \A i \in 1..Len(log) :
          /\ log[i].ev = "fail" =>
                /\ C2_Silent(log[i]) <=> ~(i < Len(log) /\ log[i + 1].ev = "msg")
                /\ \A j \in 1..Len(log) : j # i => log[j] # log[i]
          /\ log[i].ev = "msg" => i > 1 /\ log[i - 1].ev = "fail"
    /\ (\E i \in 1..Len(log) : log[i].ev = "fail") =>
          \/ pc = "AWAIT_LINE"
          \/ pc = "WAIT_CHILD" /\ children[waitFor].pc = "zombie"
          \/ pc = "TERMINATED" /\ args[0] = S_poweroff /\ log[Len(log)].what = "execl"

\* C2: every failure detected by a built-in or the launcher is reported with
\* exactly one diagnostic message, except the failures of stat, unlink and
\* of the recursive removal that rm passes over when -f was given, and the
\* failure of stat on an entry of ls -l, which are reported with no message,
\* and except the failed execl of poweroff, after which the interpreter
\* writes nothing and exits; no failure is retried; and otherwise the
\* interpreter is back at AWAIT_LINE (for the child's failed execvp: as soon
\* as the exited child has been collected).
C2_FailuresReportedUnlessForced ==
    [][/\ C2_StateOk'
       /\ pc = "WAIT_CHILD" => pc' \in {"WAIT_CHILD", "AWAIT_LINE"}]_vars

\* rm -f q d: the failed stat of q is passed over, the directory d is
\* reported, and the loop is back at the prompt
C2_Witness ==
    /\ pc = "AWAIT_LINE"
    /\ C2_Force
    /\ InLog(Fail("stat", N_q, 2))
    /\ ~InLog(Msg("ersh: rm: cannot stat: ", N_q, 2))
    /\ InLog(Msg("ersh: rm: cannot remove directory (use -r): ", N_d, 3))

\* C3: when execvp fails the child writes "command not found" and ends with
\* status 127 and never runs the read loop; the parent's launcher returns
\* 127 and the interpreter is back at AWAIT_LINE.
C3_NotFoundIs127 ==
    /\ \A p \in DOMAIN children : children[p].pc # "loop"
    /\ \A i \in 1..Len(log) :
          log[i].ev = "fail" /\ log[i].what = "execvp" =>
             /\ Target(args) = "launcher"
             /\ i < Len(log)
             /\ log[i + 1] = Msg("ersh: command not found: ", args[0], 0)
             /\ \/ /\ pc = "WAIT_CHILD"
                   /\ children[waitFor].pc = "zombie"
                   /\ children[waitFor].end = [how |-> "exit", val |-> 127]
                \/ pc = "AWAIT_LINE" /\ status = 127 /\ children = <<>>

C3_Witness ==
    /\ pc = "AWAIT_LINE" /\ status = 127 /\ args[0] = N_q
    /\ InLog(Fail("execvp", N_q, 0))

\* C4: while a child exists the interpreter is blocked in waitpid on it; at
\* most one child exists; none is left when the interpreter reads, parses or
\* dispatches.
C4_OneChildAwaited ==
    /\ Cardinality(DOMAIN children) <= 1
    /\ children # <<>> => pc = "WAIT_CHILD" /\ waitFor \in DOMAIN children
    /\ pc \in {"AWAIT_LINE", "PARSE", "DISPATCH", "TERMINATED"} => children = <<>>

\* The interpreter is blocked in waitpid on its one child, which has ended,
\* after earlier commands that changed the file system
C4_Witness ==
    /\ pc = "WAIT_CHILD" /\ Cardinality(DOMAIN children) = 1
    /\ children[waitFor].pc = "zombie" /\ fs # InitialFs

\* C5: when waitpid returns, the launcher's status is the child's exit code
\* if the child exited, and 1 if a signal ended it.
C5_StatusOfChild ==
    [][pc = "WAIT_CHILD" /\ pc' # "WAIT_CHILD" =>
          /\ children[waitFor].end.how = "exit" =>
                status' = children[waitFor].end.val
          /\ children[waitFor].end.how \in {"signal", "core"} => status' = 1]_vars

C5_Witness ==
    /\ pc = "AWAIT_LINE" /\ status = 255
    /\ InLog(Call("launcher")) /\ children = <<>>

\* C6: after a failed fork there is one message, status 1, no child and no
\* wait, and the interpreter is at AWAIT_LINE.
C6_ForkFailure ==
    InLog(Fail("fork", <<>>, 0)) =>
       /\ pc = "AWAIT_LINE" /\ status = 1
       /\ children = <<>> /\ waitFor = 0
       /\ Cardinality({i \in 1..Len(log) : log[i].ev = "msg"}) = 1
       /\ InLog(Msg("ersh: fork failed", <<>>, 0))

C6_Witness ==
    /\ InLog(Fail("fork", <<>>, 0)) /\ pc = "AWAIT_LINE"
    /\ args[0] = S_true /\ fs # InitialFs

\* The built-in names
C7_Names ==
    (S_cd :> "cd") @@ (S_exit :> "exit") @@ (S_help :> "help") @@ (S_ls :> "ls")
    @@ (S_mkdir :> "mkdir") @@ (S_poweroff :> "poweroff") @@ (S_pwd :> "pwd")
    @@ (S_rm :> "rm") @@ (S_touch :> "touch")

C7_Expected(tok) == IF tok \in DOMAIN C7_Names THEN C7_Names[tok] ELSE "launcher"

\* C7: the dispatch of a non-empty vector enters exactly one target, the
\* built-in whose name is the first token, character for character, or else
\* the launcher, and a built-in's status is what execute returns.
C7_ExactMatchDispatch ==
    [][pc = "DISPATCH" /\ pc' # "DISPATCH" =>
          /\ Len(log') >= Len(log) + 2
          /\ log'[Len(log) + 1] = Call("execute")
          /\ log'[Len(log) + 2] = Call(C7_Expected(args[0]))
          /\ \A i \in (Len(log) + 3)..Len(log') : log'[i].ev # "call"
          /\ C7_Expected(args[0]) \in Returning =>
                status' = Handler(C7_Expected(args[0]), args, Env).status]_vars

\* "cdx" went to the launcher
C7_Witness ==
    /\ args[0] = <<"c", "d", "x">> /\ pc = "WAIT_CHILD"
    /\ InLog(Call("launcher"))

\* C10: a line of nothing but separators parses to zero tokens and the loop
\* goes back to AWAIT_LINE with no call of execute, of a handler or of fork
\* and no change to the file system, the directory or the children; execute
\* on an empty vector returns 0 and does nothing.
C10_EmptyLineIsNoOp ==
    [][/\ pc = "PARSE" /\ (\A i \in 1..Len(line) : line[i] \in {" ", "\t", "\n"}) =>
             /\ argc' = 0 /\ args'[0] = NULL
             /\ pc' = "AWAIT_LINE"
             /\ log' = Append(log, Call("parse_args"))
             /\ UNCHANGED <<fs, cwd, children, waitFor, status>>
       /\ execute((0 :> NULL), Env) = Ret(Env, 0, <<>>)]_vars

C10_Witness ==
    /\ pc = "AWAIT_LINE" /\ line = <<" ", "\t", " ", "\n">>
    /\ argc = 0 /\ log = <<Call("parse_args")>> /\ fs # InitialFs

\* What a pwd that follows at once would return
C11_PwdThen == builtin_pwd((0 :> S_pwd) @@ (1 :> NULL), [fs |-> fs', cwd |-> cwd', rev |-> rev'])

\* The directory the operand of cd names, if it names one
C11_Names(r) == r.ok /\ r.exists /\ fs[r.path].kind = "dir"

C11_Step(r) ==
    IF C11_Names(r)
    THEN /\ status' = 0
         /\ cwd' = r.path /\ IsAbs(cwd')
         /\ C11_PwdThen.status = 0
         /\ C11_PwdThen.log = <<Out("pwd", r.path, 0)>>
    ELSE status' = 1 /\ cwd' = cwd

\* C11: cd without an operand, or with one that names no directory, returns
\* 1 and leaves the working directory as it was; cd to an existing directory
\* returns 0 and a pwd that follows prints the absolute path of that directory.
C11_CdThenPwd ==
    [][pc = "DISPATCH" /\ args[0] = S_cd =>
          /\ fs' = fs
          /\ IF args[1] = NULL THEN status' = 1 /\ cwd' = cwd
             ELSE C11_Step(Resolve(Env, args[1], TRUE))]_vars

\* cd d, then pwd printed /d
C11_Witness ==
    /\ pc = "AWAIT_LINE" /\ args[0] = S_pwd /\ status = 0
    /\ cwd = P_d /\ log = <<Call("parse_args"), Call("execute"), Call("pwd"), Out("pwd", P_d, 0)>>

\* C12: the working directory changes only in a cd that returns 0; no other
\* built-in and no external command changes it; a child starts in the
\* directory the interpreter is in when it forks, and the directories of the
\* existing children stay what they are.
C12_OnlyCdChangesDirectory ==
    [][/\ cwd' # cwd => pc = "DISPATCH" /\ args[0] = S_cd /\ status' = 0
       /\ \A p \in DOMAIN children' :
             IF p \in DOMAIN children THEN children'[p].cwd = children[p].cwd
             ELSE children'[p].cwd = cwd /\ cwd' = cwd]_vars

\* After cd d and a command that changed the file system, a child runs in /d
C12_Witness ==
    /\ pc = "WAIT_CHILD" /\ cwd = P_d /\ fs # InitialFs
    /\ children[waitFor].cwd = P_d /\ children[waitFor].pc = "running"

\* C18: a built-in that returns to the loop returns 0 or 1 (a failed
\* recursive removal gives 1, not the remover's -1); the status becomes 127
\* only when the launcher collects a child that ended with exit status 127,
\* after a failed execvp or by the program's own exit.
C18_StatusRanges ==
    [][/\ pc = "DISPATCH" /\ C7_Expected(args[0]) \in Returning => status' \in {0, 1}
       /\ status' = 127 /\ status # 127 =>
             /\ pc = "WAIT_CHILD" /\ C7_Expected(args[0]) = "launcher"
             /\ children[waitFor].end = [how |-> "exit", val |-> 127]
             /\ \/ InLog(Fail("execvp", args[0], 0))
                \/ args[0] \in PathPrograms]_vars

\* rm -r p failed in the remover and returned 1
C18_Witness ==
    /\ pc = "AWAIT_LINE" /\ args[0] = S_rm /\ status = 1
    /\ InLog(Fail("remove_directory_recursive", N_p, 2))

\* C19: whenever the interpreter ends itself (exit with or without further
\* tokens, end of input, poweroff whose execl failed) its exit status is 0,
\* whatever the status of the last command was.
C19_ExitStatusZero ==
    [][pc' = "TERMINATED" /\ pc # "TERMINATED" /\ term'.how # "poweroff image" =>
          /\ term'.code = 0
          /\ term'.how \in {"exit", "end of input", "exit after poweroff"}]_vars

\* End of input after a command that returned 127
C19_Witness ==
    /\ pc = "TERMINATED" /\ term = [how |-> "end of input", code |-> 0]
    /\ status = 127

\* C20: the dispatch of poweroff ends the loop: sync comes first, then the
\* execl of the power-off program, and whether execl replaces the image or
\* fails the interpreter is terminated; once terminated it reads nothing.
C20_PoweroffIsOneWay ==
    [][/\ pc = "DISPATCH" /\ args[0] = S_poweroff =>
             /\ pc' = "TERMINATED"
             /\ Len(log') = Len(log) + 5
             /\ log'[Len(log') - 1] = Out("sync", <<>>, 0)
             /\ log'[Len(log')] \in {Out("execl /bin/poweroff", <<>>, 0), Fail("execl", <<>>, 0)}
             /\ term'.how = IF log'[Len(log')].ev = "fail" THEN "exit after poweroff"
                            ELSE "poweroff image"
             /\ UNCHANGED <<fs, cwd, children, line, n>>
       /\ pc = "TERMINATED" => pc' = "TERMINATED" /\ UNCHANGED <<line, n>>]_vars

\* poweroff after other commands; execl failed and the interpreter is gone
C20_Witness ==
    /\ pc = "TERMINATED" /\ term.how = "exit after poweroff"
    /\ args[0] = S_poweroff /\ fs # InitialFs /\ cwd = P_d

\* C21: touch f with f absent creates f as an empty regular file and returns
\* 0; with f an existing file that can be opened it returns 0 and leaves the
\* file system as it was; with no argument, or when open fails, it returns 1
\* with a message and creates nothing.  After a successful touch f, touch f
\* again returns 0 and changes nothing.
C21_Quiet == \A i \in (Len(log) + 1)..Len(log') : log'[i].ev \notin {"fail", "msg", "out"}

C21_Touched(r) ==
    IF r.ok /\ r.exists /\ fs[r.path].kind = "file" /\ ~fs[r.path].imm
    THEN status' = 0 /\ fs' = fs /\ C21_Quiet
    ELSE IF r.ok /\ ~r.exists /\ ~fs[ParentPath(r.path)].imm
    THEN /\ status' = 0 /\ C21_Quiet
         /\ DOMAIN fs' = DOMAIN fs \cup {r.path}
         /\ \A p \in DOMAIN fs : fs'[p] = fs[p]
         /\ fs'[r.path].kind = "file" /\ fs'[r.path].size = 0
    ELSE /\ status' = 1 /\ fs' = fs
         /\ log'[Len(log')] = Msg("ersh: touch: cannot create file: ", args[1], 1)

C21_Again(r) ==
    /\ r.status = 0 /\ r.fs = fs' /\ r.cwd = cwd'
    /\ \A i \in 1..Len(r.log) : r.log[i].ev \notin {"fail", "msg", "out"}

C21_TouchCreatesOnce ==
    [][pc = "DISPATCH" /\ args[0] = S_touch =>
          /\ IF args[1] = NULL
             THEN /\ status' = 1 /\ fs' = fs
                  /\ log'[Len(log')] = Msg("ersh: touch: missing argument", <<>>, 1)
             ELSE C21_Touched(Resolve(Env, args[1], TRUE))
          /\ status' = 0 =>
                C21_Again(builtin_touch(args, [fs |-> fs', cwd |-> cwd', rev |-> rev']))]_vars

\* touch n has created /n empty, and touch d/a has left the 12 bytes of /d/a
C21_Witness ==
    /\ pc = "AWAIT_LINE" /\ args[0] = S_touch
    /\ 1 \in DOMAIN args /\ args[1] = <<"d", "/", "a">>
    /\ status = 0
    /\ <<"/", "n">> \in DOMAIN fs /\ fs[<<"/", "n">>].size = 0
    /\ ChildPath(P_d, <<"a">>) \in DOMAIN fs /\ fs[ChildPath(P_d, <<"a">>)].size = 12

\* C22: ls without the flag a lists exactly the entries of the directory
\* whose name does not start with a dot, each once; with the flag a it lists
\* every entry readdir yields, dot names included; and after a successful
\* mkdir of a name, ls of its parent lists that name.
C22_First ==
    CHOOSE i \in DOMAIN args \ {0} :
        /\ args[i] = NULL \/ args[i][1] # "-"
        /\ \A j \in 1..(i - 1) : args[j] # NULL /\ args[j][1] = "-"

C22_All == \E j \in 1..(C22_First - 1) : \E i \in 2..Len(args[j]) : args[j][i] = "a"

C22_Dir == Resolve(Env, IF args[C22_First] = NULL THEN Dot ELSE args[C22_First], TRUE)

\* The names readdir yields for directory d of file system f
C22_Names(f, d) == {Dot, DotDot} \cup {BaseName(p) : p \in Entries(f, d)}

C22_Shown(f, d, all) == {nm \in C22_Names(f, d) : all \/ nm[1] # "."}

\* The positions of log l at which ls wrote the name of an entry
C22_Lines(l) ==
    {i \in 1..Len(l) : l[i].ev = "out" /\
         l[i].what \in {"ls: entry", "ls: long entry", "ls: name only"}}

C22_Listed(l) == {l[i].path : i \in C22_Lines(l)}

C22_AfterMkdir(r) ==
    r.status = 0 /\ BaseName(ChildPath(cwd, args[1])) \in C22_Listed(r.log)

C22_LsListsVisibleEntries ==
    [][/\ pc = "DISPATCH" /\ args[0] = S_ls /\ status' = 0 =>
             /\ C22_Listed(log') = C22_Shown(fs, C22_Dir.path, C22_All)
             /\ Cardinality(C22_Lines(log')) = Cardinality(C22_Listed(log'))
             /\ fs' = fs
       /\ pc = "DISPATCH" /\ args[0] = S_mkdir /\ status' = 0 =>
             /\ ChildPath(cwd, args[1]) \in DOMAIN fs' \ DOMAIN fs
             /\ C22_AfterMkdir(builtin_ls((0 :> S_ls) @@ (1 :> NULL),
                                          [fs |-> fs', cwd |-> cwd', rev |-> rev']))]_vars

\* After mkdir t, plain ls in / has listed t and not .h
C22_Witness ==
    /\ pc = "AWAIT_LINE" /\ args[0] = S_ls /\ args[1] = NULL /\ cwd = Root
    /\ InLog(Out("ls: entry", <<"t">>, 1))
    /\ ~InLog(Out("ls: entry", <<".", "h">>, 1))
    /\ <<"/", ".", "h">> \in DOMAIN fs

----------------------------------------------------------------------------
(* Properties of rm and of the recursive remover, over SpecRm *)

\* Path p is t or lies below the directory t
Under(t, p) ==
    \/ p = t
    \/ Len(p) > Len(t) + 1 /\ SubSeq(p, 1, Len(t) + 1) = t \o <<"/">>

\* The file system f without everything at or below t
Pruned(f, t) == [p \in {q \in DOMAIN f : ~Under(t, q)} |-> f[p]]

\* The part of the file system f at or below t
Subtree(f, t) == [p \in {q \in DOMAIN f : Under(t, q)} |-> f[p]]

\* The index of the first token of the rm command line that is no flag
\* token (argc if there is none), and the flags the tokens before it give
RmFirst ==
    CHOOSE k \in 1..argc :
        /\ \A m \in 1..(k - 1) : args[m][1] = "-"
        /\ k = argc \/ args[k][1] # "-"

RmRecursive ==
    \E j \in 1..(RmFirst - 1) : \E i \in 2..Len(args[j]) : args[j][i] \in {"r", "R"}

RmForce ==
    \E j \in 1..(RmFirst - 1) : \E i \in 2..Len(args[j]) : args[j][i] = "f"

RmDispatched == pc = "DISPATCH" /\ args[0] = S_rm

\* Operand idx names a directory itself (not through a symbolic link)
IsDirOperand(idx) ==
    /\ ChildPath(Root, args[idx]) \in DOMAIN fs
    /\ fs[ChildPath(Root, args[idx])].kind = "dir"

\* Every entry below t can be removed: none is immutable
AllRemovable(t) == \A p \in DOMAIN fs : Under(t, p) => ~fs[p].imm

NoLinkBelow(t) == \A p \in DOMAIN fs : Under(t, p) => fs[p].kind # "link"

\* C13 as written: rm -r d on a directory tree in which every entry can be
\* removed returns 0 and leaves nothing of the tree behind (and nothing else
\* is changed).
C13_RemovesWholeTree ==
    [][/\ RmDispatched /\ RmRecursive /\ RmFirst = argc - 1
       /\ IsDirOperand(RmFirst)
       /\ AllRemovable(ChildPath(Root, args[RmFirst]))
       => /\ status' = 0
          /\ fs' = Pruned(fs, ChildPath(Root, args[RmFirst]))]_vars

\* C13 for trees of directories and files only: without a symbolic link in
\* the tree, rm -r d removes the whole tree, returns 0 and writes no message.
C13_RemovesWholeTreeWithoutLinks ==
    [][/\ RmDispatched /\ RmRecursive /\ RmFirst = argc - 1
       /\ IsDirOperand(RmFirst)
       /\ AllRemovable(ChildPath(Root, args[RmFirst]))
       /\ NoLinkBelow(ChildPath(Root, args[RmFirst]))
       => /\ status' = 0
          /\ fs' = Pruned(fs, ChildPath(Root, args[RmFirst]))
          /\ \A i \in 1..Len(log') : log'[i].ev \notin {"fail", "msg"}]_vars

\* The operands of the rm command line and the absolute path of one (the
\* working directory of SpecRm is the root)
RmOps == RmFirst..(argc - 1)

OpPath(idx) == ChildPath(Root, args[idx])

\* Why rm without -r cannot remove operand idx: it is missing, a directory
\* or immutable
OpMissing(idx) == OpPath(idx) \notin DOMAIN fs
OpImmutable(idx) == ~OpMissing(idx) /\ fs[OpPath(idx)].kind # "dir" /\ fs[OpPath(idx)].imm
OpPlainFails(idx) == OpMissing(idx) \/ IsDirOperand(idx) \/ OpImmutable(idx)

\* Event e is followed at once by event m in log l
Follows(l, e, m) == \E i \in 1..(Len(l) - 1) : l[i] = e /\ l[i + 1] = m

\* What C14 says of the directory operand idx of an rm without -r
C14_Dir(idx) ==
    LET t == OpPath(idx)
        reached == RmForce \/ \A j \in RmFirst..(idx - 1) : ~OpPlainFails(j)
    IN  /\ (\A j \in RmOps \ {idx} : ~Under(t, OpPath(j))) =>
              Subtree(fs', t) = Subtree(fs, t)
        /\ t \in DOMAIN fs' /\ fs'[t] = fs[t]
        /\ reached =>
              Follows(log', Fail("is a directory", args[idx], idx),
                      Msg("ersh: rm: cannot remove directory (use -r): ", args[idx], idx))
        /\ reached /\ ~RmForce =>
              /\ status' = 1
              /\ \A i \in 1..Len(log') : log'[i].arg <= idx
              /\ \A j \in (idx + 1)..(argc - 1) :
                    ~OpMissing(j) => Subtree(fs', OpPath(j)) = Subtree(fs, OpPath(j))
        /\ RmForce =>
              /\ status' = 0
              /\ \A j \in (idx + 1)..(argc - 1) :
                    /\ ~OpPlainFails(j) => OpPath(j) \notin DOMAIN fs'
                    /\ OpMissing(j) => \E i \in 1..Len(log') : log'[i] = Fail("stat", args[j], j)
                    /\ OpImmutable(j) => \E i \in 1..Len(log') : log'[i] = Fail("unlink", args[j], j)

\* C14: rm of a directory without -r/-R removes neither the directory nor
\* anything in it and writes its message with or without -f; without -f it
\* returns 1 at once, nothing later being processed; with -f it goes on with
\* the operands that follow.
C14_DirectoryWithoutR ==
    [][RmDispatched /\ ~RmRecursive =>
          \A idx \in RmOps : IsDirOperand(idx) => C14_Dir(idx)]_vars

\* rm -f f d g: f and g are removed, d is reported and stays whole
C14_Witness ==
    /\ pc = "AWAIT_LINE" /\ args[0] = S_rm /\ RmForce /\ ~RmRecursive /\ argc = 5
    /\ status = 0
    /\ P_f \notin DOMAIN fs /\ <<"/", "g">> \notin DOMAIN fs
    /\ Subtree(fs, P_d) = Subtree(RmBase, P_d)
    /\ \E i \in 1..Len(log) : log[i] = Msg("ersh: rm: cannot remove directory (use -r): ", N_d, 3)

\* A symbolic link of f through which stat fails or finds a directory
BadLink(f, p) ==
    /\ f[p].kind = "link"
    /\ f[p].target \in DOMAIN f => f[f[p].target].kind = "dir"

\* The file system when rm comes to operand idx, the operands before it
\* having been removed
FsBefore(idx) ==
    [p \in {q \in DOMAIN fs : \A j \in RmFirst..(idx - 1) : ~Under(OpPath(j), q)} |-> fs[p]]

\* rm cannot remove the entry t of f: it is missing, an immutable file, a
\* directory without -r, or a directory whose tree holds an immutable file
\* or a link through which stat fails or finds a directory
FailsIn(f, t) ==
    \/ t \notin DOMAIN f
    \/ f[t].kind # "dir" /\ f[t].imm
    \/ f[t].kind = "dir" /\ ~RmRecursive
    \/ f[t].kind = "dir" /\ \E p \in DOMAIN f : Under(t, p) /\ (f[p].imm \/ BadLink(f, p))

OpFails(idx) == FailsIn(FsBefore(idx), OpPath(idx))

\* Nothing at or below the operand is left
OpGone(idx) == \A p \in DOMAIN fs' : ~Under(OpPath(idx), p)

\* The operand is as it was
OpUntouched(idx) ==
    IF OpMissing(idx) THEN OpPath(idx) \notin DOMAIN fs'
    ELSE Subtree(fs', OpPath(idx)) = Subtree(fs, OpPath(idx))

\* What C15 says when k is the first operand that fails
C15_StopsAt(k) ==
    /\ status' = 1
    /\ \A j \in RmFirst..(k - 1) : OpGone(j)
    /\ \A j \in (k + 1)..(argc - 1) : OpUntouched(j)
    /\ log'[Len(log')].ev = "msg" /\ log'[Len(log')].arg = k
    /\ \A i \in 1..Len(log') :
          /\ log'[i].ev = "msg" => i = Len(log')
          /\ log'[i].ev = "fail" => i = Len(log') - 1 /\ log'[i].arg = k

\* C15: without -f rm takes its operands from left to right and at the first
\* one whose stat or removal fails writes one message and returns 1: the
\* operands before it are removed, those after it are neither looked at nor
\* changed; if none fails all are removed and the status is 0.
C15_StopsAtFirstFailure ==
    [][RmDispatched /\ ~RmForce /\ RmOps # {} =>
          IF \E k \in RmOps : OpFails(k)
          THEN C15_StopsAt(CHOOSE k \in RmOps : OpFails(k) /\ \A j \in RmFirst..(k - 1) : ~OpFails(j))
          ELSE /\ status' = 0
               /\ \A j \in RmOps : OpGone(j)
               /\ \A i \in 1..Len(log') : log'[i].ev \notin {"fail", "msg"}]_vars

\* rm f q g: f is removed, q is reported, g is still there
C15_Witness ==
    /\ pc = "AWAIT_LINE" /\ args[0] = S_rm /\ ~RmForce /\ argc = 4
    /\ args[2] = N_q /\ status = 1
    /\ P_f \notin DOMAIN fs /\ <<"/", "g">> \in DOMAIN fs
    /\ log[Len(log)] = Msg("ersh: rm: cannot stat: ", N_q, 2)

\* The file system when rm -f comes to operand idx: the operands before it
\* that could be removed are gone
RECURSIVE C16_FsAt(_)
C16_FsAt(idx) ==
    IF idx = RmFirst THEN fs
    ELSE LET Skip(f) == IF FailsIn(f, OpPath(idx - 1)) THEN f ELSE Pruned(f, OpPath(idx - 1))
         IN  Skip(C16_FsAt(idx - 1))

\* C16: with -f and at least one operand rm returns 0 whatever fails: an
\* operand that cannot be removed is passed over, every other operand is
\* removed, in the order given, and the only message there can be is the one
\* for a directory without -r; without -f no failure of an operand goes
\* without its message.
C16_ForceNeverAborts ==
    [][RmDispatched /\ RmOps # {} =>
          IF RmForce
          THEN /\ status' = 0
               /\ \A j \in RmOps :
                     IF FailsIn(C16_FsAt(j), OpPath(j))
                     THEN \E i \in 1..Len(log') : log'[i].ev = "fail" /\ log'[i].arg = j
                     ELSE OpGone(j)
               /\ \A i, k \in 1..Len(log') :
                     i < k /\ log'[i].arg > 0 /\ log'[k].arg > 0 => log'[i].arg <= log'[k].arg
               /\ \A i \in 1..Len(log') :
                     log'[i].ev = "msg" =>
                        log'[i].what = "ersh: rm: cannot remove directory (use -r): "
          ELSE \A i \in 1..Len(log') :
                  log'[i].ev = "fail" => i < Len(log') /\ log'[i + 1].ev = "msg"]_vars

\* rm -f f q g: the missing q is passed over without a word, f and g are gone
C16_Witness ==
    /\ pc = "AWAIT_LINE" /\ args[0] = S_rm /\ RmForce /\ argc = 5
    /\ args[3] = N_q /\ status = 0
    /\ P_f \notin DOMAIN fs /\ <<"/", "g">> \notin DOMAIN fs
    /\ log[Len(log)] = Fail("stat", N_q, 3)

\* The entries of directory D of f in the order readdir gives them
ReadOrder(f, D, desc) == SortNames({BaseName(p) : p \in Entries(f, D)}, desc)

\* The remover cannot remove entry c of f: an immutable file, a link through
\* which stat fails or finds a directory, or a directory holding one of these
EntryFails(f, c) ==
    IF f[c].kind = "dir"
    THEN \E p \in DOMAIN f : Under(c, p) /\ (f[p].imm \/ BadLink(f, p))
    ELSE f[c].imm \/ BadLink(f, c)

\* What C17 says of the call on directory D, which has a child that cannot
\* be removed, f being the file system before and g the one after: with k
\* the first such child in readdir order, the children before k are gone
\* with all below them, k is still there, the children after k are as they
\* were, D is still there; and the same holds inside k if k is a directory.
RECURSIVE C17_Aborted(_, _, _, _)
C17_Aborted(f, g, D, desc) ==
    LET Check(names, k) ==
            /\ \A i \in 1..(k - 1) :
                  \A p \in DOMAIN g : ~Under(ChildPath(D, names[i]), p)
            /\ ChildPath(D, names[k]) \in DOMAIN g
            /\ g[ChildPath(D, names[k])] = f[ChildPath(D, names[k])]
            /\ \A i \in (k + 1)..Len(names) :
                  Subtree(g, ChildPath(D, names[i])) = Subtree(f, ChildPath(D, names[i]))
            /\ D \in DOMAIN g /\ g[D] = f[D]
            /\ f[ChildPath(D, names[k])].kind = "dir" =>
                  C17_Aborted(f, g, ChildPath(D, names[k]), desc)
        First(names) ==
            Check(names, CHOOSE k \in 1..Len(names) :
                            /\ EntryFails(f, ChildPath(D, names[k]))
                            /\ \A i \in 1..(k - 1) : ~EntryFails(f, ChildPath(D, names[i])))
    IN  First(ReadOrder(f, D, desc))

\* C17: when rm -r is given a directory in which some child cannot be
\* stat'ed, unlinked or recursively removed, the remover stops at the first
\* such child in readdir order: what came before it is deleted and stays
\* deleted, nothing after it is touched, the directory itself stays, and rm
\* reports the failure (status 1, or 0 without a message under -f).
C17_RemoverAbortsAtFirstFailure ==
    [][/\ RmDispatched /\ RmRecursive /\ RmFirst = argc - 1
       /\ IsDirOperand(RmFirst)
       /\ EntryFails(fs, OpPath(RmFirst))
       => /\ C17_Aborted(fs, fs', OpPath(RmFirst), rev)
          /\ status' = IF RmForce THEN 0 ELSE 1
          /\ log'[Len(log')] =
                IF RmForce THEN Fail("remove_directory_recursive", args[RmFirst], RmFirst)
                ELSE Msg("ersh: rm: cannot remove directory: ", args[RmFirst], RmFirst)]_vars

\* rm -r d with d/c immutable and readdir giving a, c, s: a is gone, c and
\* the directory s with its files are still there, and so is d
C17_Witness ==
    /\ pc = "AWAIT_LINE" /\ args[0] = S_rm /\ RmRecursive /\ ~RmForce
    /\ argc = 3 /\ args[2] = N_d /\ status = 1
    /\ P_da \notin DOMAIN fs
    /\ P_dc \in DOMAIN fs /\ fs[P_dc].imm
    /\ P_dsb \in DOMAIN fs /\ P_dse \in DOMAIN fs /\ P_d \in DOMAIN fs
    /\ P_dl \notin DOMAIN fs

----------------------------------------------------------------------------
(* Properties of the size field, over SpecSize *)

C24_IsDigit(c) == c \in {"0", "1", "2", "3", "4", "5", "6", "7", "8", "9"}

\* The digits of a written field: what follows its leading spaces
RECURSIVE C24_Strip(_)
C24_Strip(w) == IF w # <<>> /\ Head(w) = " " THEN C24_Strip(Tail(w)) ELSE w

C24_DigitValue(c) == CHOOSE d \in 0..9 : Digit(d) = c

\* The number a string of at most ten digits denotes
RECURSIVE C24_Number(_)
C24_Number(ds) ==
    IF ds = <<>> THEN 0
    ELSE C24_Number(SubSeq(ds, 1, Len(ds) - 1)) * 10 + C24_DigitValue(ds[Len(ds)])

\* The file size a string of digits denotes: its last nine digits are lo
C24_Value(ds) ==
    [hi |-> C24_Number(SubSeq(ds, 1, Len(ds) - 9)),
     lo |-> C24_Number(SubSeq(ds, IF Len(ds) > 9 THEN Len(ds) - 8 ELSE 1, Len(ds)))]

\* ds is the decimal numeral of sz: digits only, no leading zero unless it
\* is the single digit 0
C24_Decimal(ds, sz) ==
    /\ ds # <<>> /\ \A i \in 1..Len(ds) : C24_IsDigit(ds[i])
    /\ Len(ds) = 1 \/ ds[1] # "0"
    /\ C24_Value(ds) = sz

\* The claim as stated: the written field is exactly 10 characters wide
C24_FieldExactlyTenWide ==
    written # NoResult =>
        /\ C24_Decimal(C24_Strip(written), fsize)
        /\ Len(written) = 10

\* C24: for every non-negative size write_size_aligned writes the decimal
\* numeral of the size with no leading zeros, 0 as the single digit 0,
\* preceded by spaces that fill the field to 10 characters when the numeral
\* is shorter, and by nothing when the numeral has 10 digits or more.
C24_FieldAtLeastTenWide ==
    written # NoResult =>
        /\ C24_Decimal(C24_Strip(written), fsize)
        /\ Len(written) = IF Len(C24_Strip(written)) < 10 THEN 10
                           ELSE Len(C24_Strip(written))

\* The size 10000000012 has been written as its eleven digits, unpadded
C24_Witness ==
    /\ written # NoResult /\ fsize = [hi |-> 10, lo |-> 12]
    /\ Len(written) = 11 /\ written[1] = "1" /\ written[10] = "1" /\ written[11] = "2"

----------------------------------------------------------------------------
(* Properties of the long listing *)

C23_Long == \E j \in 1..(C22_First - 1) : \E i \in 2..Len(args[j]) : args[j][i] = "l"

\* The characters of a written line that are not colour escape sequences
C23_Visible(t) == SelectSeq(t, LAMBDA c : c \notin {"ERDEMOS_PRIMARY_COLOR",
                                                    "ERDEMOS_COMMAND_COLOR", "COLOR_RESET"})

\* What stat finds for entry nm of the listed directory
C23_Stat(nm) == Resolve(Env, C22_Dir.path \o <<"/">> \o nm, TRUE)

C23_Triplet(t) ==
    << IF t >= 4 THEN "r" ELSE "-",
       IF t % 4 >= 2 THEN "w" ELSE "-",
       IF t % 2 = 1 THEN "x" ELSE "-" >>

\* The permission string of a node: type flag, then owner, group, others
C23_Permissions(node) ==
    <<IF node.kind = "dir" THEN "d" ELSE "-">>
    \o C23_Triplet((node.mode \div 64) % 8)
    \o C23_Triplet((node.mode \div 8) % 8)
    \o C23_Triplet(node.mode % 8)

\* t is the long line of node under name nm, its size field of width w
C23_IsLongLine(t, node, nm, w) ==
    /\ Len(t) = 10 + 1 + w + 2 + Len(nm) + 1
    /\ SubSeq(t, 1, 10) = C23_Permissions(node)
    /\ t[11] = " "
    /\ C24_Decimal(C24_Strip(SubSeq(t, 12, 11 + w)), off_t(node.size))
    /\ SubSeq(t, 12 + w, Len(t)) = <<" ", " ">> \o nm \o <<"\n">>

\* The positions of the entries ls listed in this step
C23_Entries == {i \in C22_Lines(log') : i > Len(log)}

\* The claim as stated: every listed entry gets the full line
C23_EveryEntryHasLongLine ==
    [][pc = "DISPATCH" /\ args[0] = S_ls /\ status' = 0 /\ C23_Long =>
          \A i \in C23_Entries :
              /\ log'[i].what = "ls: long entry"
              /\ C23_Stat(log'[i].path).exists
              /\ C23_IsLongLine(C23_Visible(log'[i - 1].path),
                                fs[C23_Stat(log'[i].path).path], log'[i].path, 10)]_vars

\* C23: in long format every listed entry produces one line.  When stat of
\* the entry succeeds the line is the 10-character permission string, a
\* space, the size right-aligned in a field of 10 characters, two spaces
\* and the name; when stat fails the line is the name alone.
C23_LongLineOrName ==
    [][pc = "DISPATCH" /\ args[0] = S_ls /\ status' = 0 /\ C23_Long =>
          \A i \in C23_Entries :
              /\ log'[i - 1].what = "ls: line"
              /\ IF C23_Stat(log'[i].path).ok /\ C23_Stat(log'[i].path).exists
                 THEN C23_IsLongLine(C23_Visible(log'[i - 1].path),
                                     fs[C23_Stat(log'[i].path).path], log'[i].path, 10)
                 ELSE C23_Visible(log'[i - 1].path) = log'[i].path \o <<"\n">>]_vars

\* ls -al w after rm -r o: the dangling link l is listed by its name alone,
\* the directory . with its long line
C23_Witness ==
    /\ pc = "AWAIT_LINE" /\ args[0] = S_ls
    /\ \E i \in 1..Len(log) :
          /\ log[i] = Out("ls: name only", <<"l">>, 2)
          /\ C23_Visible(log[i - 1].path) = <<"l", "\n">>
    /\ \E i \in 1..Len(log) :
          /\ log[i] = Out("ls: long entry", Dot, 2)
          /\ C23_Visible(log[i - 1].path) =
                 <<"d", "r", "w", "x", "r", "-", "x", "r", "-", "x", " ",
                   " ", " ", " ", " ", " ", " ", " ", " ", " ", "0", " ", " ", ".", "\n">>

----------------------------------------------------------------------------
(* Properties of help, over SpecHelp *)

\* The nine built-in names
C25_Names == DOMAIN C7_Names

\* Whether execute routes a command of this name to a built-in
C25_Dispatched(nm) == Target((0 :> nm) @@ (1 :> NULL)) # "launcher"

\* C25: help with an operand writes the usage of that command and returns 0
\* exactly when the operand is one of the nine built-in names, which are
\* the names execute dispatches to a built-in; for every other operand it
\* writes the unknown-command message and returns 1; help without operand
\* writes the catalog and returns 0.
C25_HelpKnowsTheBuiltins ==
    [][pc = "DISPATCH" /\ args[0] = S_help =>
          /\ Len(log') = Len(log) + (IF status' = 0 THEN 3 ELSE 4)
          /\ IF args[1] = NULL
             THEN status' = 0 /\ log'[Len(log')] = Out("help: catalog", <<>>, 0)
             ELSE /\ status' = 0 <=> args[1] \in C25_Names
                  /\ status' = 0 <=> C25_Dispatched(args[1])
                  /\ status' \in {0, 1}
                  /\ log'[Len(log')] =
                        IF status' = 0 THEN Out("help: usage", args[1], 1)
                        ELSE Msg("ersh: help: unknown command: ", args[1], 1)
          /\ UNCHANGED <<fs, cwd>>]_vars

\* help poweroff has written the usage of poweroff
C25_Witness ==
    /\ pc = "AWAIT_LINE" /\ args[0] = S_help /\ status = 0
    /\ log[Len(log)] = Out("help: usage", S_poweroff, 1)

----------------------------------------------------------------------------
(* Properties of the handles of ls, rm and touch *)

\* The handles still held after the events of l, innermost last, starting
\* from the handles held; a close of anything but the innermost handle held
\* leaves the mark "stray"
RECURSIVE C26_Held(_, _)
C26_Held(l, held) ==
    IF l = <<>> THEN held
    ELSE IF Head(l).ev = "open" THEN C26_Held(Tail(l), Append(held, Head(l).path))
    ELSE IF Head(l).ev = "close"
         THEN IF held # <<>> /\ held[Len(held)] = Head(l).path
              THEN C26_Held(Tail(l), SubSeq(held, 1, Len(held) - 1))
              ELSE <<"stray">>
    ELSE C26_Held(Tail(l), held)

C26_Opens(l) == Cardinality({i \in 1..Len(l) : l[i].ev = "open"})

C26_Balanced(l) ==
    /\ C26_Held(l, <<>>) = <<>>
    /\ args[0] \in {S_ls, S_touch} /\ status' = 0 => C26_Opens(l) = 1
    /\ args[0] \in {S_ls, S_touch} /\ status' # 0 => C26_Opens(l) = 0

\* C26: in every call of ls, rm or touch each directory handle and file
\* descriptor the handler or the recursive remover opens is closed again
\* before the handler returns, innermost first, whatever path is taken: no
\* handle is held at the return that was not held at the call.  A
\* successful ls or touch opens exactly one.
C26_HandlesClosedOnReturn ==
    [][pc = "DISPATCH" /\ args[0] \in {S_ls, S_rm, S_touch} =>
          C26_Balanced(SubSeq(log', Len(log) + 1, Len(log')))]_vars

\* rm -r w: the remover opened w and, inside it, w/l, failed there, and has
\* closed both
C26_Witness ==
    /\ pc = "AWAIT_LINE" /\ args[0] = S_rm /\ status = 1
    /\ \E i, j \in 1..Len(log) :
          /\ i < j
          /\ log[i] = Acquire("opendir", <<"w", "/", "l">>)
          /\ log[j] = Release("closedir", <<"w">>)
          /\ log[j - 1] = Release("closedir", <<"w", "/", "l">>)

----------------------------------------------------------------------------
(* Properties of the line reader, over SpecRead *)

\* The bytes the last read returned
C27_Chunk == SubSeq(taken, Len(taken) - n + 1, Len(taken))

C27_Newlines(b) == {i \in 1..Len(b) : b[i] = "\n"}

\* C27: in every iteration what read returned and parse_args is given is
\* exactly one line of the input: it starts where a line starts, and it
\* holds no newline but the one that ends it (the last line may end with
\* the input instead).
C27_OneLinePerIteration ==
    pc = "PARSE" =>
        /\ Len(taken) = n \/ taken[Len(taken) - n] = "\n"
        /\ C27_Newlines(C27_Chunk) \subseteq {n}
        /\ C27_Newlines(C27_Chunk) = {} => stdin = <<>>

----------------------------------------------------------------------------
(* Properties of the reach of rm -r, over SpecRm *)

\* C28: rm -r removes only what lies in the trees rooted at its operands:
\* every object outside them is still there afterwards, unchanged, also
\* when a tree holds a symbolic link to a directory outside it.
C28_NothingOutsideRemoved ==
    [][RmDispatched /\ RmRecursive =>
          \A p \in DOMAIN fs :
              (\A idx \in RmOps : ~Under(OpPath(idx), p)) =>
                  p \in DOMAIN fs' /\ fs'[p] = fs[p]]_vars

----------------------------------------------------------------------------
(* Properties of the recursion of the remover, over SpecDeep *)

\* The depth of the directory tree of f rooted at t: 1 for a directory
\* without subdirectories
RECURSIVE C29_TreeDepth(_, _)
C29_TreeDepth(f, t) ==
    LET subs == {q \in Entries(f, t) : f[q].kind = "dir"}
        Deepest(S) == CHOOSE m \in S : \A k \in S : k <= m
    IN  IF subs = {} THEN 1
        ELSE 1 + Deepest({C29_TreeDepth(f, q) : q \in subs})

\* C29: the calls of remove_directory_recursive active at any moment are
\* never more than the directory tree it was called on is deep, also when a
\* joined child path is cut at 1023 characters.
C29_DepthBoundedByTree ==
    frames # <<>> =>
        Len(frames) <= C29_TreeDepth(fs, ChildPath(Root, frames[1].path))

----------------------------------------------------------------------------
(* Properties of init, over SpecInit *)

C30_Terminated(c) == c \in {"zombie", "reaped by handler", "reaped by main"}

\* C30: if the loadkeys child was created, the shell is started only after
\* that child has terminated, whether the handler or main's waitpid reaped
\* it; and from the start of the shell on init does not exit.
C30_ShellAfterLoadkeys ==
    [][/\ sh = "none" /\ sh' # "none" /\ kbd # "none" => C30_Terminated(kbd)
       /\ sh # "none" => sh' # "none" /\ ipc' = "PAUSE"
       /\ ipc = "FORK_SHELL" /\ ipc' # ipc => ipc' = "PAUSE"]_vars

\* The handler reaped the loadkeys child before main's waitpid, and the
\* shell runs
C30_Witness ==
    /\ kbd = "reaped by handler" /\ sh = "running" /\ ipc = "PAUSE"

====
